---- MODULE Spec2Model ----
(***************************************************************************)
(* CrabSid playback engine: the PSID/RSID container decoder (sid_file.rs), *)
(* the C64 memory map with its SID register windows (memory.rs), the       *)
(* player / sample pump (player.rs) and the callers that guard it          *)
(* (main.rs, tui/app.rs).                                                  *)
(*                                                                         *)
(* The specifications share the variables:                                 *)
(*   DecodeSpec   SidFile::parse applied to a bounded family of files      *)
(*   MemSpec      C64Memory: configure_sids, get_byte, set_byte            *)
(*   Spec         the Player API driven by an arbitrary caller             *)
(*   AppSpec      the Player driven only through main and the TUI handlers *)
(*   MixSpec      mix_sample on f32 values                                 *)
(*   ChipSpec     register stores and switch_chip_model                    *)
(*   EnvSpec      the envelope telemetry                                   *)
(*   LockSpec     the audio callback and the TUI around the player mutex   *)
(*   HarnessSpec  run_routine and the cycle loop with the 6502 stepped     *)
(*   PlaylistSpec Playlist::add and Playlist::remove                       *)
(*   CaptureSpec  the 1-in-4 envelope capture counted sample by sample     *)
(*   LoadSpec     C64Memory::load at the top of the address space          *)
(*   SwitchSpec   switch_chip_model and load_sid_file on the chip models   *)
(*   GuardSpec    the TUI handlers and the audio callback, lock by lock;   *)
(*                GuardFairSpec adds the scheduling of the two threads     *)
(*   HvscSpec     the HvscBrowser: navigation and the metadata databases   *)
(***************************************************************************)
EXTENDS Integers, Sequences, FiniteSets, TLC

VARIABLES
    \* ---- decoder (sid_file.rs) ----
    file,               \* the bytes handed to SidFile::parse
    parsed,             \* its result, or NotRun
    \* ---- memory map (memory.rs) ----
    ram,                \* RAM, sparse: address -> byte, absent = 0
    sids,               \* the windows: sequence of [base, model, regs]
    access,             \* the last bus access and where it went
    \* ---- player (player.rs) ----
    alive,              \* a Player has been constructed
    tune,               \* the SidFile the player's fields were last taken from
    sample_rate,
    clock_hz,
    cycles_per_frame,
    acc,                \* cycle_accumulator * sample_rate (exact numerator)
    frame_cycle_count,
    paused,
    playback_error,     \* "None" or the stored message
    chip_models,
    envelope_history,   \* the rings: [voices, held, total], see history_slot
    envelope_write_pos,
    envelope_sample_counter,
    buffer,             \* slots of the caller's buffer that hold a mixed sample
                        \* after the last fill_buffer call; the others are 0.0
    last,               \* the last call on the player and its outcome
    faulted,            \* a PlayTimeout was recorded and no load succeeded since
    fills,              \* fill_buffer calls that advanced emulation so far
    \* ---- callers (main.rs, tui/app.rs) ----
    pc,                 \* control thread: "start", "idle", "show_error", "exit"
                        \* (GuardSpec: <<handler, phase>>)
    popup,              \* "None" or "Error"
    mutex,              \* the Mutex of SharedPlayer: who holds it, or "poisoned"
    audio,              \* the audio callback's position inside fill_buffer
    cpu,                \* the 6502 under run_routine: registers and step count
    playlist,           \* Playlist::entries, each [source, subsong]
    browser             \* the HvscBrowser: path, entries, selection, databases

decVars == <<file, parsed>>
memVars == <<ram, sids, access>>
envVars == <<envelope_history, envelope_write_pos, envelope_sample_counter>>
plyVars == <<alive, tune, sample_rate, clock_hz, cycles_per_frame, acc,
             frame_cycle_count, paused, playback_error, chip_models, envVars,
             buffer, last, faulted, fills>>
sideVars == <<mutex, audio, cpu, playlist, browser>>
appVars == <<pc, popup, sideVars>>
vars == <<decVars, memVars, plyVars, appVars>>

Byte == 0..255

\* the variables of the lock, harness, playlist and browser models at rest
NoAudio == [at |-> "idle"]
NoCpu == [at |-> "off"]
NoBrowser == [at |-> "none"]
SideInit ==
    /\ mutex = "free"
    /\ audio = NoAudio
    /\ cpu = NoCpu
    /\ playlist = <<>>
    /\ browser = NoBrowser
Max(a, b) == IF a >= b THEN a ELSE b
Min(a, b) == IF a <= b THEN a ELSE b

(***************************************************************************)
(* Program constants                                                       *)
(***************************************************************************)
HEADER_MIN_SIZE == 118        \* 0x76
OFFSET_VERSION == 4
OFFSET_DATA == 6
OFFSET_LOAD == 8
OFFSET_INIT == 10
OFFSET_PLAY == 12
OFFSET_SONGS == 14
OFFSET_START == 16
OFFSET_SPEED == 18
OFFSET_FLAGS == 118           \* 0x76
OFFSET_SECOND_SID == 122      \* 0x7A
OFFSET_THIRD_SID == 123       \* 0x7B
RAM_SIZE == 65536
SID_REGISTER_COUNT == 32      \* 0x20
PAL_FRAME_CYCLES == 19656
NTSC_FRAME_CYCLES == 17045
CLOCK_PAL == 985248           \* residfp::clock::PAL
CLOCK_NTSC == 1022727         \* residfp::clock::NTSC
INIT_MAX_STEPS == 1000000
PLAY_MAX_STEPS == 100000
PRIMARY_SID == 54272          \* 0xD400
SCOPE_BUFFER_SIZE == 1024
ENVELOPE_SAMPLE_DIVISOR == 4
STACK_END == 512              \* 0x0200

\* Option<T>: None is the empty sequence, Some(v) the one-element sequence.
None == <<>>
Some(v) == <<v>>
IsSome(o) == Len(o) = 1
Unwrap(o) == o[1]

(***************************************************************************)
(* Container decoder: sid_file.rs                                          *)
(***************************************************************************)
\* bytes[off] with the code's 0-based offsets
At(bytes, off) == bytes[off + 1]

read_u16_be(bytes, off) == At(bytes, off) * 256 + At(bytes, off + 1)

read_u32_be(bytes, off) ==
    ((At(bytes, off) * 256 + At(bytes, off + 1)) * 256 + At(bytes, off + 2)) * 256
        + At(bytes, off + 3)

\* u16::from_le_bytes([data[0], data[1]])
u16_from_le(lo, hi) == lo + hi * 256

\* 0xD000 | (byte << 4): the shifted byte is below 0x1000, so the or is a sum
parse_sid_address(byte) ==
    IF byte = 0 THEN None ELSE Some(53248 + ((byte * 16) % 65536))

\* bytes[n..]
Drop(s, n) == SubSeq(s, n + 1, Len(s))

PSID == <<80, 83, 73, 68>>
RSID == <<82, 83, 73, 68>>

MagicName(m) == IF m = PSID THEN "PSID" ELSE IF m = RSID THEN "RSID" ELSE "other"

ParseErr(msg) == [ok |-> FALSE, err |-> msg]

\* SidFile::parse, lines 125-140: the payload and the embedded load address
ResolveLoad(load_address, data) ==
    IF load_address = 0 /\ Len(data) >= 2
    THEN [load_address |-> u16_from_le(data[1], data[2]), data |-> Drop(data, 2)]
    ELSE [load_address |-> load_address, data |-> data]

parse(bytes) ==
    IF Len(bytes) < HEADER_MIN_SIZE THEN ParseErr("File too small")
    ELSE LET magic == SubSeq(bytes, 1, 4) IN
    IF magic # PSID /\ magic # RSID THEN ParseErr("Invalid magic")
    ELSE
    LET version == read_u16_be(bytes, OFFSET_VERSION)
        data_offset == read_u16_be(bytes, OFFSET_DATA)
        flags == IF version >= 2 /\ Len(bytes) > OFFSET_FLAGS + 1
                 THEN read_u16_be(bytes, OFFSET_FLAGS) ELSE 0
        multi == version >= 3 /\ Len(bytes) > OFFSET_THIRD_SID
    IN
    IF data_offset > Len(bytes) THEN ParseErr("Data offset beyond file")
    ELSE
    LET r == ResolveLoad(read_u16_be(bytes, OFFSET_LOAD), Drop(bytes, data_offset))
    IN [ok |-> TRUE,
        magic |-> MagicName(magic),
        version |-> version,
        data_offset |-> data_offset,
        load_address |-> r.load_address,
        init_address |-> read_u16_be(bytes, OFFSET_INIT),
        play_address |-> read_u16_be(bytes, OFFSET_PLAY),
        songs |-> read_u16_be(bytes, OFFSET_SONGS),
        start_song |-> read_u16_be(bytes, OFFSET_START),
        speed |-> read_u32_be(bytes, OFFSET_SPEED),
        flags |-> flags,
        data |-> r.data,
        second_sid_address |->
            IF multi THEN parse_sid_address(At(bytes, OFFSET_SECOND_SID)) ELSE None,
        third_sid_address |->
            IF multi THEN parse_sid_address(At(bytes, OFFSET_THIRD_SID)) ELSE None]

is_pal(t) ==
    IF t.version >= 2 THEN ((t.flags \div 4) % 4) # 2 ELSE TRUE

requires_full_emulation_no_play(t) ==
    t.magic = "RSID" \/ t.speed # 0

requires_full_emulation(t) ==
    t.magic = "RSID" \/ t.play_address = 0 \/ t.speed # 0

sid_count(t) ==
    IF IsSome(t.second_sid_address) /\ IsSome(t.third_sid_address) THEN 3
    ELSE IF IsSome(t.second_sid_address) /\ ~IsSome(t.third_sid_address) THEN 2
    ELSE 1

\* None is 0 here: Some(1) = 6581, Some(2) = 8580, Some(3) = either
chip_model_for_sid(t, index) ==
    IF t.version < 2 THEN 0
    ELSE (t.flags \div (2 ^ (4 + index * 2))) % 4

(***************************************************************************)
(* The files the decoder is run on: a header of hdr_len bytes laid out as  *)
(* the format says, followed by the payload.                               *)
(***************************************************************************)
MaxPayloadLen == 4

XSID == <<88, 83, 73, 68>>

Hi(v) == (v \div 256) % 256
Lo(v) == v % 256

HeaderByte(h, i) ==
    CASE i \in 0..3 -> h.magic[i + 1]
      [] i = OFFSET_VERSION -> Hi(h.version)
      [] i = OFFSET_VERSION + 1 -> Lo(h.version)
      [] i = OFFSET_DATA -> Hi(h.data_offset)
      [] i = OFFSET_DATA + 1 -> Lo(h.data_offset)
      [] i = OFFSET_LOAD -> Hi(h.load)
      [] i = OFFSET_LOAD + 1 -> Lo(h.load)
      [] i = OFFSET_INIT -> Hi(h.init)
      [] i = OFFSET_INIT + 1 -> Lo(h.init)
      [] i = OFFSET_PLAY -> Hi(h.play)
      [] i = OFFSET_PLAY + 1 -> Lo(h.play)
      [] i = OFFSET_SONGS + 1 -> 1
      [] i = OFFSET_START + 1 -> 1
      [] i = OFFSET_SPEED + 3 -> h.speed
      [] i = OFFSET_FLAGS -> Hi(h.flags)
      [] i = OFFSET_FLAGS + 1 -> Lo(h.flags)
      [] i = OFFSET_SECOND_SID -> h.b2
      [] i = OFFSET_THIRD_SID -> h.b3
      [] OTHER -> 0

\* n payload bytes: the first two are an embedded load address, the rest RTS
Payload(lo, hi, n) == [i \in 1..n |-> IF i = 1 THEN lo ELSE IF i = 2 THEN hi ELSE 96]

MkFile(h) == [i \in 1..h.hdr_len |-> HeaderByte(h, i - 1)] \o h.payload

Header(magic, version, hdr_len, data_offset, load, play, speed, flags, b2, b3, payload) ==
    [magic |-> magic, version |-> version, hdr_len |-> hdr_len,
     data_offset |-> data_offset, load |-> load, init |-> 4096, play |-> play,
     speed |-> speed, flags |-> flags, b2 |-> b2, b3 |-> b3, payload |-> payload]

Payloads ==
    {Payload(0, 16, n) : n \in 0..MaxPayloadLen} \cup
    {Payload(254, 255, n) : n \in 0..MaxPayloadLen}

\* second / third SID header bytes: absent, 0xD400, 0xD420, 0xD430, 0xD500
SidBytes == {0, 64, 66, 67, 80}

DecodeFiles ==
    {MkFile(Header(m, v, l, d, a, 4099, 0, 0, b2, b3, p)) :
        m \in {PSID, RSID, XSID}, v \in {1, 3}, l \in {117, 118, 124},
        d \in {0, 118, 124, 129}, a \in {0, 4096, 65535},
        b2 \in {0, 66}, b3 \in {0, 80}, p \in Payloads}

NotRun == [ok |-> FALSE, err |-> "not run"]

DecodeInit ==
    /\ file \in DecodeFiles
    /\ parsed = NotRun

Decode ==
    /\ parsed = NotRun
    /\ parsed' = parse(file)
    /\ UNCHANGED file

(***************************************************************************)
(* Memory map: memory.rs                                                   *)
(***************************************************************************)
Mos6581 == "Mos6581"
Mos8580 == "Mos8580"

EmptyMap == [x \in {} |-> 0]

\* a sparse byte map: absent entries read 0, and a 0 is stored as absence
Rd(m, a) == IF a \in DOMAIN m THEN m[a] ELSE 0
Wr(m, a, v) ==
    IF v = 0 THEN [x \in DOMAIN m \ {a} |-> m[x]]
    ELSE [x \in DOMAIN m \cup {a} |-> IF x = a THEN v ELSE m[x]]

\* SidChip::new: Sid::new(chip_model) has every register at its power-on 0
SidChip(chip_model, base_address) ==
    [base |-> base_address, model |-> chip_model, regs |-> EmptyMap]

containsInclusive(chip, addr) ==
    addr >= chip.base /\ addr <= chip.base + SID_REGISTER_COUNT

\* SidChip::contains (the bases the decoder produces are at most 0xDFF0, so
\* base + 0x20 stays within u16)
contains(chip, addr) ==
    addr >= chip.base /\ addr < chip.base + SID_REGISTER_COUNT

\* C64Memory::new
MemoryNew(chip_model) ==
    [ram |-> EmptyMap, sids |-> <<SidChip(chip_model, PRIMARY_SID)>>]

\* C64Memory::configure_sids: configs is a sequence of <<addr, model>>
configure_sids(configs) ==
    [i \in 1..Len(configs) |-> SidChip(configs[i][2], configs[i][1])]

LoadCountUnclamped(address, len) == len

\* C64Memory::load: the number of bytes copied, end - start
LoadCount(address, len) == Min(address + len, RAM_SIZE) - address

\* a load whose addresses wrap around to 0x0000 past the end of RAM
load_wrapping(m, address, data) ==
    LET written == {(address + i - 1) % RAM_SIZE : i \in 1..Len(data)}
        byte(x) == data[((x - address + RAM_SIZE) % RAM_SIZE) + 1]
    IN [x \in (DOMAIN m \ written) \cup {a \in written : byte(a) # 0} |->
            IF x \in written THEN byte(x) ELSE m[x]]

\* C64Memory::load: ram[start..end].copy_from_slice(&data[..end - start])
load(m, address, data) ==
    LET written == address .. (address + LoadCount(address, Len(data)) - 1)
        byte(x) == data[x - address + 1]
    IN [x \in (DOMAIN m \ written) \cup {a \in written : byte(a) # 0} |->
            IF x \in written THEN byte(x) ELSE m[x]]

\* C64Memory::clear_zeropage_and_stack: ram[0x0000..0x0200].fill(0)
clear_zeropage_and_stack(m) == [x \in DOMAIN m \ (0..(STACK_END - 1)) |-> m[x]]

\* the scan of get_byte / set_byte: the index of the first window that
\* contains addr, 0 when none does
RECURSIVE FirstWindow(_, _, _)
FirstWindow(ws, addr, i) ==
    IF i > Len(ws) THEN 0
    ELSE IF contains(ws[i], addr) THEN i
    ELSE FirstWindow(ws, addr, i + 1)

\* Bus::set_byte: the new <<ram, sids>>
set_byte(m, ws, addr, val) ==
    LET i == FirstWindow(ws, addr, 1) IN
    IF i # 0
    THEN [ram |-> m,
          sids |-> [ws EXCEPT ![i].regs = Wr(@, (addr - ws[i].base) % 256, val)]]
    ELSE [ram |-> Wr(m, addr, val), sids |-> ws]

\* Bus::get_byte: where the read is served from; a chip read is answered by
\* the SID library (sid.read(reg)), a RAM read by the stored byte
get_byte(m, ws, addr) ==
    LET i == FirstWindow(ws, addr, 1) IN
    IF i # 0
    THEN [dest |-> "sid", chip |-> i, reg |-> (addr - ws[i].base) % 256, val |-> 0]
    ELSE [dest |-> "ram", chip |-> 0, reg |-> 0, val |-> Rd(m, addr)]

(***************************************************************************)
(* Player: player.rs                                                       *)
(*                                                                         *)
(* The 6502 is not interpreted.  A routine is summarised by k, the number  *)
(* of instructions after which PC first equals 0x0000 (0 when it is        *)
(* entered with PC = 0x0000); k is an input of every call that runs one.   *)
(* cycle_accumulator is kept as the exact numerator acc over sample_rate.  *)
(***************************************************************************)
NoError == "None"

\* run_routine: `while steps < max_steps { if pc == 0 { return Ok }; step }`
run_routine(k, max_steps) == IF k < max_steps THEN "Ok" ELSE "Timeout"

run_init(k) ==
    IF run_routine(k, INIT_MAX_STEPS) = "Ok" THEN "Ok" ELSE "InitTimeout"

run_play(k) ==
    IF run_routine(k, PLAY_MAX_STEPS) = "Ok" THEN "Ok" ELSE "PlayTimeout"

call_play(play_address, k) ==
    IF play_address = 0 THEN "Ok" ELSE run_play(k)

timing_from_file(t) ==
    [clock_hz |-> IF is_pal(t) THEN CLOCK_PAL ELSE CLOCK_NTSC,
     cycles_per_frame |-> IF is_pal(t) THEN PAL_FRAME_CYCLES ELSE NTSC_FRAME_CYCLES]

\* chip_override: None or Some(number)
\* a selection that takes the field value 3 (6581 and 8580) as 8580 too
select_chip_model_for_sid_either(t, sid_index, chip_override) ==
    IF IsSome(chip_override)
    THEN (IF Unwrap(chip_override) = 8580 THEN Mos8580 ELSE Mos6581)
    ELSE IF chip_model_for_sid(t, sid_index) >= 2 THEN Mos8580 ELSE Mos6581

select_chip_model_for_sid(t, sid_index, chip_override) ==
    IF IsSome(chip_override)
    THEN (IF Unwrap(chip_override) = 8580 THEN Mos8580 ELSE Mos6581)
    ELSE IF chip_model_for_sid(t, sid_index) = 2 THEN Mos8580 ELSE Mos6581

select_chip_models(t, chip_override) ==
    [i \in 1..sid_count(t) |-> select_chip_model_for_sid(t, i - 1, chip_override)]

build_sid_configs_unguarded(t, models) ==
    <<(<<PRIMARY_SID, models[1]>>)>>
    \o (IF IsSome(t.second_sid_address)
        THEN <<(<<Unwrap(t.second_sid_address), models[Min(2, Len(models))]>>)>>
        ELSE <<>>)
    \o (IF IsSome(t.third_sid_address)
        THEN <<(<<Unwrap(t.third_sid_address), models[Min(3, Len(models))]>>)>>
        ELSE <<>>)

build_sid_configs(t, models) ==
    <<(<<PRIMARY_SID, models[1]>>)>>
    \o (IF IsSome(t.second_sid_address) /\ Len(models) > 1
        THEN <<(<<Unwrap(t.second_sid_address), models[2]>>)>> ELSE <<>>)
    \o (IF IsSome(t.third_sid_address) /\ Len(models) > 2
        THEN <<(<<Unwrap(t.third_sid_address), models[3]>>)>> ELSE <<>>)

\* sid.reset() on every chip
ResetSids(ws) == [i \in DOMAIN ws |-> [ws[i] EXCEPT !.regs = EmptyMap]]

\* fill_buffer line 165
SilencedIfPaused(p, e) == p

SilencedIfErrored(p, e) == e # NoError

Silenced(p, e) == p \/ e # NoError

\* The cycle loop of one sample, lines 178-194, taken a frame at a time:
\* c cycles are still to run, `plays` play calls were made so far in this
\* fill_buffer call, and the j-th of them is the one that takes kj steps.
RECURSIVE RunCycles(_, _, _, _, _, _, _, _)
RunCycles(fcc, c, cpf, play_address, plays, clocks, j, kj) ==
    IF c = 0
    THEN [fcc |-> fcc, plays |-> plays, clocks |-> clocks, fault |-> FALSE]
    ELSE IF fcc >= cpf
    THEN (IF call_play(play_address, IF plays + 1 = j THEN kj ELSE 1) # "Ok"
          THEN [fcc |-> 0, plays |-> plays + 1, clocks |-> clocks, fault |-> TRUE]
          ELSE LET d == Min(c, cpf)
               IN RunCycles(d, c - d, cpf, play_address, plays + 1, clocks + d, j, kj))
    ELSE LET d == Min(c, cpf - fcc)
         IN RunCycles(fcc + d, c - d, cpf, play_address, plays, clocks + d, j, kj)

\* fill_buffer lines 173-176, on the numerator a of the accumulator after
\* `cycle_accumulator += cycles_per_sample`: the `as u32` cast truncates
cycles_to_run_rounded(a, rate) == (a + rate \div 2) \div rate

cycles_to_run(a, rate) == a \div rate

carry_all(a, rate) == a

\* `cycle_accumulator -= f64::from(cycles_to_run)`
carry(a, rate) == a - cycles_to_run(a, rate) * rate

\* How many of the next `left` samples run all their cycles before the
\* frame boundary is tested true: s samples run (acc + s * clk) div rate
\* cycles, and no play call is made while that is at most cpf - fcc.
QuietSamples(a0, fcc, left, rate, clk, cpf) ==
    IF fcc > cpf THEN 0
    ELSE Max(0, Min(left, ((cpf - fcc + 1) * rate - 1 - a0) \div clk))

\* The sample loop, lines 172-207: st is the running state, `left` the
\* number of sample slots not yet produced.  A run of samples that reaches
\* no frame boundary is taken in one stride (each only clocks the SIDs); a
\* sample that reaches one goes through RunCycles.
RECURSIVE FillSamples(_, _, _, _, _, _, _, _)
FillSamples(st, left, rate, clk, cpf, play_address, j, kj) ==
    IF left = 0 \/ st.fault THEN st
    ELSE LET q == QuietSamples(st.acc, st.fcc, left, rate, clk, cpf) IN
    IF q > 0
    THEN LET a == st.acc + q * clk
         IN FillSamples([acc |-> carry(a, rate), fcc |-> st.fcc + cycles_to_run(a, rate),
                         plays |-> st.plays,
                         clocks |-> st.clocks + cycles_to_run(a, rate),
                         fault |-> FALSE, done |-> st.done + q],
                        left - q, rate, clk, cpf, play_address, j, kj)
    ELSE LET a == st.acc + clk
             r == RunCycles(st.fcc, cycles_to_run(a, rate), cpf, play_address,
                            st.plays, st.clocks, j, kj)
         IN FillSamples([acc |-> carry(a, rate), fcc |-> r.fcc, plays |-> r.plays,
                         clocks |-> r.clocks, fault |-> r.fault,
                         done |-> IF r.fault THEN st.done ELSE st.done + 1],
                        left - 1, rate, clk, cpf, play_address, j, kj)

\* setup_stack_for_rts, and the same three writes in load_song (320-322):
\* an RTS at $0000 and the return address $FFFF on the stack
setup_stack_for_rts(m, ws) ==
    LET a == set_byte(m, ws, 0, 96)
        b == set_byte(a.ram, a.sids, 511, 255)
    IN set_byte(b.ram, b.sids, 510, 255)

\* call_play lines 429-430
reset_stack(m, ws) ==
    LET a == set_byte(m, ws, 511, 255) IN set_byte(a.ram, a.sids, 510, 255)

\* LDA $C000 / EOR #$FF / STA $C000 / RTS
TOGGLE_ROUTINE == <<173, 0, 192, 73, 255, 141, 0, 192, 96>>

\* What a routine that returns leaves in RAM (cpu.single_step until PC = 0).
\* The routines of the tunes used here are a bare RTS, which writes
\* nothing, or TOGGLE_ROUTINE, which complements the byte at $C000.
routine_effect(m, address) ==
    IF [i \in 1..Len(TOGGLE_ROUTINE) |-> Rd(m, address + i - 1)] = TOGGLE_ROUTINE
    THEN Wr(m, 49152, 255 - Rd(m, 49152))
    ELSE m

\* the ring contents.  Captures are numbered 1, 2, ... and the value a
\* capture stores stands for f32::from(env) / 255.0 of that moment; every
\* ring is written at the same slots, so h = [voices, held, total] with
\* `held` the slots written since the rings were last zeroed and `total`
\* the captures made so far (pos = total mod 1024) fixes every slot.
history_slot(h, pos, slot) ==
    LET age == (pos - 1 - slot) % SCOPE_BUFFER_SIZE
    IN IF age < h.held THEN h.total - age ELSE 0

\* one ring as the array it is: history[0..1024]
history_ring(h, pos) ==
    [i \in 1..SCOPE_BUFFER_SIZE |-> history_slot(h, pos, i - 1)]

\* (0..voice_count).map(|_| Box::new([0.0; SCOPE_BUFFER_SIZE])), lines 132-135
\* and 295-298; the capture numbering goes on
\* the rings cleared in place, their number kept
new_history_cleared(voice_count, h) ==
    [voices |-> h.voices, held |-> 0, total |-> h.total]

new_history(voice_count, h) == [voices |-> voice_count, held |-> 0, total |-> h.total]

\* capture_envelope_history, called once for each of `done` samples
capture_envelope_history(h, pos, counter, done) ==
    LET captures == (counter + done) \div ENVELOPE_SAMPLE_DIVISOR IN
    [history |-> [voices |-> h.voices,
                  held |-> Min(SCOPE_BUFFER_SIZE, h.held + captures),
                  total |-> h.total + captures],
     pos |-> (pos + captures) % SCOPE_BUFFER_SIZE,
     counter |-> (counter + done) % ENVELOPE_SAMPLE_DIVISOR]

\* &history[a..b]
Slice(ring, a, b) == [i \in 1..(b - a) |-> ring[a + i]]

envelope_samples_unrotated(h, pos, p) ==
    IF p
    THEN [v \in 1..h.voices |-> [i \in 1..SCOPE_BUFFER_SIZE |-> 0]]
    ELSE LET ring == history_ring(h, pos)
         IN [v \in 1..h.voices |-> ring]

\* Player::envelope_samples
envelope_samples(h, pos, p) ==
    IF p
    THEN [v \in 1..h.voices |-> [i \in 1..SCOPE_BUFFER_SIZE |-> 0]]
    ELSE LET ring == history_ring(h, pos)
             samples == Slice(ring, pos, SCOPE_BUFFER_SIZE) \o Slice(ring, 0, pos)
         IN [v \in 1..h.voices |-> samples]

voice_levels_unpaused(ws, p, env) == [i \in 1..(Len(ws) * 3) |-> env]

\* Player::voice_levels; env stands for the envelope counters read_state()
\* reports
voice_levels(ws, p, env) ==
    IF p THEN [i \in 1..(Len(ws) * 3) |-> 0]
    ELSE [i \in 1..(Len(ws) * 3) |-> env]

toggled_on(p) == TRUE

\* toggle_pause: !self.paused
toggled(p) == ~p

fault_leaves_samples(done) == done

\* the buffer a faulting call leaves after `done` samples were written:
\* buffer.fill(0.0), line 184
fault_buffer(done) == 0

\* load_song, lines 336-340: the playback state after a successful init
ResetPlaybackKeepPause(p) ==
    [acc |-> 0, frame_cycle_count |-> 0, paused |-> p, playback_error |-> NoError]

ResetPlayback(p) ==
    [acc |-> 0, frame_cycle_count |-> 0, paused |-> FALSE, playback_error |-> NoError]

StateName(p, e) ==
    IF e # NoError THEN "Errored" ELSE IF p THEN "Paused" ELSE "Playing"

Call(op, res, clocks, from) == [op |-> op, res |-> res, clocks |-> clocks, from |-> from]

(***************************************************************************)
(* Player operations as actions                                            *)
(***************************************************************************)
MaxFills == 2
MaxSamples == 2
MaxEmitted == 4
MaxCallbacks == 2

\* a sample rate at which clock_hz / sample_rate is exact in an f64 and a
\* sample is shorter than a frame
SampleRates == {64}
ChipOverrides == {None, Some(8580)}
InitSteps == {1, INIT_MAX_STEPS}

\* name, then: version, play_address, speed, flags, second and third SID byte
PlayerFile(m, v, play, speed, flags, b2, b3) ==
    MkFile(Header(m, v, 124, 124, 4096, play, speed, flags, b2, b3, Payload(96, 96, 9)))

\* init at $1000 is TOGGLE_ROUTINE, play at $1008 its RTS
ToggleFile == MkFile(Header(PSID, 2, 124, 124, 4096, 4104, 0, 0, 0, 0, TOGGLE_ROUTINE))

PlayerFiles ==
    {PlayerFile(PSID, 2, 4099, 0, 0, 0, 0),      \* one SID, PAL
     PlayerFile(PSID, 3, 4099, 0, 40, 66, 80),   \* NTSC, 8580, 0xD420, 0xD500
     PlayerFile(PSID, 3, 4099, 0, 0, 0, 80),     \* third SID without a second
     PlayerFile(PSID, 3, 4099, 0, 0, 64, 0),     \* second SID at 0xD400
     PlayerFile(PSID, 3, 4099, 0, 0, 66, 67),    \* 0xD420 and 0xD430
     PlayerFile(PSID, 2, 0, 0, 0, 0, 0),         \* play_address = 0
     PlayerFile(PSID, 2, 4099, 1, 0, 0, 0),      \* CIA speed flag
     PlayerFile(RSID, 2, 4099, 0, 0, 0, 0),
     ToggleFile}

PlayerTunes == {parse(f) : f \in PlayerFiles}

\* the tunes a caller of the Player API is modelled handing it: those of
\* PlayerFiles that differ in what Player does with them
ApiTunes ==
    {parse(f) : f \in {PlayerFile(PSID, 2, 4099, 0, 0, 0, 0),
                       PlayerFile(PSID, 3, 4099, 0, 40, 66, 80),
                       PlayerFile(PSID, 3, 4099, 0, 0, 0, 80),
                       PlayerFile(PSID, 3, 4099, 0, 0, 64, 0),
                       PlayerFile(PSID, 2, 0, 0, 0, 0, 0),
                       ToggleFile}}

NoTune == [ok |-> FALSE, err |-> "no tune"]
NoAccess == [op |-> "none"]
NoCall == Call("none", "-", 0, "-")
NoHistory == [voices |-> 0, held |-> 0, total |-> 0]

PlayerInit ==
    /\ alive = FALSE
    /\ tune = NoTune
    /\ sample_rate = 0
    /\ clock_hz = 0
    /\ cycles_per_frame = 0
    /\ acc = 0
    /\ frame_cycle_count = 0
    /\ paused = FALSE
    /\ playback_error = NoError
    /\ chip_models = <<>>
    /\ envelope_history = NoHistory
    /\ envelope_write_pos = 0
    /\ envelope_sample_counter = 0
    /\ buffer = 0
    /\ last = NoCall
    /\ faulted = FALSE
    /\ fills = 0

\* the file's fields taken without its clock and frame length
TakeTuneKeepTiming(t, models) ==
    /\ tune' = t
    /\ UNCHANGED <<clock_hz, cycles_per_frame>>
    /\ chip_models' = models
    /\ envelope_history' = new_history(Len(models) * 3, envelope_history)

\* the fields load_sid_file (lines 267-298) and new take from the file
TakeTune(t, models) ==
    /\ tune' = t
    /\ clock_hz' = timing_from_file(t).clock_hz
    /\ cycles_per_frame' = timing_from_file(t).cycles_per_frame
    /\ chip_models' = models
    /\ envelope_history' = new_history(Len(models) * 3, envelope_history)

\* bootstrap_cpu: the memory it builds
bootstrap_cpu(t, models) ==
    LET ws == configure_sids(build_sid_configs(t, models))
    IN setup_stack_for_rts(load(MemoryNew(models[1]).ram, t.load_address, t.data), ws)

\* Player::new
New(t, rate, chip_override, k) ==
    /\ ~alive
    /\ IF run_init(k) = "Ok"
       THEN /\ alive' = TRUE
            /\ TakeTune(t, select_chip_models(t, chip_override))
            /\ sids' = bootstrap_cpu(t, select_chip_models(t, chip_override)).sids
            /\ ram' = routine_effect(
                          bootstrap_cpu(t, select_chip_models(t, chip_override)).ram,
                          t.init_address)
            /\ sample_rate' = rate
            /\ acc' = 0
            /\ frame_cycle_count' = 0
            /\ paused' = FALSE
            /\ playback_error' = NoError
            /\ last' = Call("new", "Ok", 0, "-")
       ELSE /\ last' = Call("new", run_init(k), 0, "-")
            /\ UNCHANGED <<alive, tune, sample_rate, clock_hz, cycles_per_frame,
                           acc, frame_cycle_count, paused, playback_error,
                           chip_models, envelope_history, sids, ram>>
    /\ UNCHANGED <<faulted, fills, envelope_write_pos, envelope_sample_counter,
                   buffer>>

\* samples emitted since Player::new: capture_envelope_history counts them
Emitted == envelope_history.total * ENVELOPE_SAMPLE_DIVISOR + envelope_sample_counter

\* the bound on advancing fill_buffer calls: at most `calls` of them and at
\* most `samples` samples; a silent call is always possible
WithinBudget(n, calls, samples) ==
    \/ Silenced(paused, playback_error)
    \/ (fills < calls /\ Emitted + n <= samples)

\* Player::fill_buffer with a buffer of n samples
fill_buffer(n, j) ==
    /\ alive
    /\ IF Silenced(paused, playback_error)
       THEN /\ last' = Call("fill_buffer", "silent", 0, "-")
            /\ buffer' = 0
            /\ UNCHANGED <<acc, frame_cycle_count, paused, playback_error,
                           faulted, fills, envVars, ram>>
       ELSE /\ LET st == FillSamples([acc |-> acc, fcc |-> frame_cycle_count,
                                      plays |-> 0, clocks |-> 0, fault |-> FALSE,
                                      done |-> 0],
                                     n, sample_rate, clock_hz, cycles_per_frame,
                                     tune.play_address, j, PLAY_MAX_STEPS)
               IN /\ acc' = st.acc
                  /\ frame_cycle_count' = st.fcc
                  /\ paused' = (st.fault \/ paused)
                  /\ playback_error' = IF st.fault THEN "PlayTimeout" ELSE playback_error
                  /\ faulted' = (st.fault \/ faulted)
                  /\ last' = Call("fill_buffer", IF st.fault THEN "fault" ELSE "played",
                                  st.clocks, "-")
                  /\ buffer' = IF st.fault THEN fault_buffer(st.done) ELSE st.done
                  /\ LET e == capture_envelope_history(
                                  envelope_history, envelope_write_pos,
                                  envelope_sample_counter, st.done)
                     IN /\ envelope_history' = e.history
                        /\ envelope_write_pos' = e.pos
                        /\ envelope_sample_counter' = e.counter
                  /\ ram' = IF st.plays > 0 /\ tune.play_address # 0
                            THEN reset_stack(ram, sids).ram ELSE ram
            /\ fills' = fills + 1
    /\ UNCHANGED <<alive, tune, sample_rate, clock_hz, cycles_per_frame,
                   chip_models, sids>>

toggle_pause ==
    /\ alive
    /\ paused' = toggled(paused)
    /\ last' = Call("toggle_pause", "Ok", 0, "-")
    /\ UNCHANGED <<alive, tune, sample_rate, clock_hz, cycles_per_frame, acc,
                   frame_cycle_count, playback_error, chip_models, faulted, fills,
                   envVars, buffer, sids, ram>>

\* a take_error that also resumes playback
take_error_resume ==
    /\ alive
    /\ playback_error' = NoError
    /\ paused' = FALSE
    /\ last' = Call("take_error", IF playback_error = NoError THEN "None" ELSE "Some",
                    0, "-")
    /\ UNCHANGED <<alive, tune, sample_rate, clock_hz, cycles_per_frame, acc,
                   frame_cycle_count, chip_models, faulted, fills,
                   envVars, buffer, sids, ram>>

take_error ==
    /\ alive
    /\ playback_error' = NoError
    /\ last' = Call("take_error", IF playback_error = NoError THEN "None" ELSE "Some",
                    0, "-")
    /\ UNCHANGED <<alive, tune, sample_rate, clock_hz, cycles_per_frame, acc,
                   frame_cycle_count, paused, chip_models, faulted, fills,
                   envVars, buffer, sids, ram>>

reload_clear_last(m, ws, t) ==
    setup_stack_for_rts(clear_zeropage_and_stack(load(m, t.load_address, t.data)),
                        ResetSids(ws))

\* load_song lines 307-322: RAM before the init routine runs
reload(m, ws, t) ==
    setup_stack_for_rts(load(clear_zeropage_and_stack(m), t.load_address, t.data),
                        ResetSids(ws))

\* load_song for the tune t, with the windows ws already in place: RAM is
\* reloaded, the chips are reset, init runs, and only a returning init
\* resets playback
InitSong(op, ws, t, k) ==
    /\ sids' = reload(ram, ws, t).sids
    /\ ram' = IF run_init(k) = "Ok"
              THEN routine_effect(reload(ram, ws, t).ram, t.init_address)
              ELSE reload(ram, ws, t).ram
    /\ last' = Call(op, run_init(k), 0, StateName(paused, playback_error))
    /\ IF run_init(k) = "Ok"
       THEN /\ acc' = ResetPlayback(paused).acc
            /\ frame_cycle_count' = ResetPlayback(paused).frame_cycle_count
            /\ paused' = ResetPlayback(paused).paused
            /\ playback_error' = ResetPlayback(paused).playback_error
            /\ faulted' = FALSE
       ELSE UNCHANGED <<acc, frame_cycle_count, paused, playback_error, faulted>>

load_song(k) ==
    /\ alive
    /\ InitSong("load_song", sids, tune, k)
    /\ UNCHANGED <<alive, tune, sample_rate, clock_hz, cycles_per_frame,
                   chip_models, fills, envVars, buffer>>

\* load_sid_file that also rewinds the envelope write position
load_sid_file_rewind(t, k) ==
    /\ alive
    /\ TakeTune(t, select_chip_models(t, None))
    /\ InitSong("load_sid_file",
                configure_sids(build_sid_configs(t, select_chip_models(t, None))), t, k)
    /\ envelope_write_pos' = 0
    /\ UNCHANGED <<alive, sample_rate, fills, envelope_sample_counter, buffer>>

load_sid_file(t, k) ==
    /\ alive
    /\ TakeTune(t, select_chip_models(t, None))
    /\ InitSong("load_sid_file",
                configure_sids(build_sid_configs(t, select_chip_models(t, None))), t, k)
    /\ UNCHANGED <<alive, sample_rate, fills, envelope_write_pos,
                   envelope_sample_counter, buffer>>

OtherInit ==
    /\ file = <<>>
    /\ parsed = NotRun
    /\ ram = EmptyMap
    /\ sids = <<>>
    /\ access = NoAccess
    /\ pc = "api"
    /\ popup = "None"
    /\ SideInit

Init == PlayerInit /\ OtherInit

\* C64Memory::set_chip_model; index counts from 1 here
set_chip_model(ws, index, chip_model) ==
    IF index \in 1..Len(ws)
    THEN [ws EXCEPT ![index] = SidChip(chip_model, ws[index].base)]
    ELSE ws

\* a switch that always installs the 8580
other_model_8580(model) == Mos8580

\* switch_chip_model, lines 386-389
other_model(model) == IF model = Mos6581 THEN Mos8580 ELSE Mos6581

\* state.sid_register[..0x19]
RESTORED_REGISTERS == 25

restore_registers_short(chip, state) ==
    [chip EXCEPT !.regs = [r \in {x \in DOMAIN state : x < RESTORED_REGISTERS - 1} |->
                             state[r]]]

\* switch_chip_model, lines 399-403: the saved registers written to the
\* new chip.  read_state() is taken to report, for each register, the
\* value the chip was last sent.
restore_registers(chip, state) ==
    [chip EXCEPT !.regs = [r \in {x \in DOMAIN state : x < RESTORED_REGISTERS} |->
                             state[r]]]

\* Player::switch_chip_model; the call's result is the model it returns
switch_chip_model(sid_index) ==
    /\ alive
    /\ LET idx == IF IsSome(sid_index) THEN Unwrap(sid_index) ELSE 0 IN
       IF idx >= Len(chip_models) \/ idx >= Len(sids)
       THEN /\ last' = Call("switch_chip_model",
                            IF chip_models = <<>> THEN Mos6581 ELSE chip_models[1],
                            0, "-")
            /\ UNCHANGED <<chip_models, sids>>
       ELSE LET state == sids[idx + 1].regs
                new_model == other_model(chip_models[idx + 1])
            IN /\ chip_models' = [chip_models EXCEPT ![idx + 1] = new_model]
               /\ sids' = [set_chip_model(sids, idx + 1, new_model) EXCEPT
                              ![idx + 1] = restore_registers(@, state)]
               /\ last' = Call("switch_chip_model", new_model, 0, "-")
    /\ UNCHANGED <<alive, tune, sample_rate, clock_hz, cycles_per_frame, acc,
                   frame_cycle_count, paused, playback_error, faulted, fills,
                   envVars, buffer, ram>>

Next ==
    \/ /\ \E t \in ApiTunes, rate \in SampleRates, o \in ChipOverrides, k \in InitSteps :
              New(t, rate, o, k)
       /\ UNCHANGED <<decVars, access, appVars>>
    \/ /\ \E n \in 1..MaxSamples, j \in 0..2 :
              WithinBudget(n, MaxFills, MaxEmitted) /\ fill_buffer(n, j)
       /\ UNCHANGED <<decVars, access, appVars>>
    \/ /\ toggle_pause
       /\ UNCHANGED <<decVars, access, appVars>>
    \/ /\ take_error
       /\ UNCHANGED <<decVars, access, appVars>>
    \/ /\ \E k \in InitSteps : load_song(k)
       /\ UNCHANGED <<decVars, access, appVars>>
    \/ /\ \E t \in ApiTunes, k \in InitSteps : load_sid_file(t, k)
       /\ UNCHANGED <<decVars, access, appVars>>

Spec == Init /\ [][Next]_vars

(***************************************************************************)
(* DecodeSpec: SidFile::parse on each file, then the memory part of        *)
(* bootstrap_cpu (player.rs 508-522) on what it returned.                  *)
(***************************************************************************)
LoadDecoded ==
    /\ parsed.ok
    /\ access = NoAccess
    /\ LET models == select_chip_models(parsed, None) IN
       /\ sids' = configure_sids(build_sid_configs(parsed, models))
       /\ ram' = load(MemoryNew(models[1]).ram, parsed.load_address, parsed.data)
    /\ access' = [op |-> "load", addr |-> parsed.load_address,
                  len |-> Len(parsed.data)]
    /\ UNCHANGED <<file, parsed>>

DecodeSpecInit ==
    /\ DecodeInit
    /\ ram = EmptyMap
    /\ sids = <<>>
    /\ access = NoAccess
    /\ PlayerInit
    /\ pc = "decode"
    /\ popup = "None"
    /\ SideInit

DecodeNext ==
    \/ /\ Decode
       /\ UNCHANGED <<memVars, plyVars, appVars>>
    \/ /\ LoadDecoded
       /\ UNCHANGED <<plyVars, appVars>>

DecodeSpec == DecodeSpecInit /\ [][DecodeNext]_vars

(***************************************************************************)
(* MemSpec: the memory map on its own, driven over probe addresses around  *)
(* every window boundary.                                                  *)
(***************************************************************************)
MaxWrites == 2

\* 0xD3FF 0xD400 0xD41F | 0xD420 0xD430 0xD43F 0xD440 0xD44F 0xD450 | 0xFFFF
ProbeAddrs ==
    {54271, 54272, 54303, 54304, 54320, 54335, 54336, 54351, 54352, 65535}

ProbeVals == {17, 255}

\* bases a header byte can give a second or third window: 0xD400, 0xD420,
\* 0xD430
ExtraBases == {Unwrap(parse_sid_address(b)) : b \in {64, 66, 67}}

WindowConfigs ==
    {<<(<<PRIMARY_SID, Mos6581>>)>>}
    \cup {<<(<<PRIMARY_SID, Mos6581>>), (<<b, Mos8580>>)>> : b \in ExtraBases}
    \cup {<<(<<PRIMARY_SID, Mos6581>>), (<<b, Mos8580>>), (<<c, Mos6581>>)>> :
            b \in ExtraBases, c \in ExtraBases}

RECURSIVE SumRegs(_, _)
SumRegs(ws, i) ==
    IF i > Len(ws) THEN 0 ELSE Cardinality(DOMAIN ws[i].regs) + SumRegs(ws, i + 1)

\* bytes currently stored, in RAM and in chip registers
Stored == Cardinality(DOMAIN ram) + SumRegs(sids, 1)

MemInit ==
    /\ ram = MemoryNew(Mos6581).ram
    /\ sids = MemoryNew(Mos6581).sids
    /\ access = NoAccess
    /\ file = <<>>
    /\ parsed = NotRun
    /\ PlayerInit
    /\ pc = "mem"
    /\ popup = "None"
    /\ SideInit

MemConfigure(configs) ==
    /\ sids' = configure_sids(configs)
    /\ access' = [op |-> "configure"]
    /\ UNCHANGED ram

MemSetByte(a, v) ==
    /\ Stored < MaxWrites
    /\ ram' = set_byte(ram, sids, a, v).ram
    /\ sids' = set_byte(ram, sids, a, v).sids
    /\ access' = [op |-> "set", addr |-> a, val |-> v, ram0 |-> ram, sids0 |-> sids]

MemGetByte(a) ==
    /\ access' = [op |-> "get", addr |-> a, res |-> get_byte(ram, sids, a)]
    /\ UNCHANGED <<ram, sids>>

MemNext ==
    \/ /\ \E c \in WindowConfigs : MemConfigure(c)
       /\ UNCHANGED <<decVars, plyVars, appVars>>
    \/ /\ \E a \in ProbeAddrs, v \in ProbeVals : MemSetByte(a, v)
       /\ UNCHANGED <<decVars, plyVars, appVars>>
    \/ /\ \E a \in ProbeAddrs : MemGetByte(a)
       /\ UNCHANGED <<decVars, plyVars, appVars>>

MemSpec == MemInit /\ [][MemNext]_vars

(***************************************************************************)
(* MixSpec: the mix of one sample (fill_buffer 196-203, mix_sample) over   *)
(* chip outputs at and around the clamp.  An f32 is sig * 2^exp with       *)
(* 2^23 <= |sig| < 2^24, or sig = 0.                                       *)
(***************************************************************************)
SigMin == 2^23
SigMax == 2^24

Abs(x) == IF x < 0 THEN -x ELSE x
Zero32 == [sig |-> 0, exp |-> 0]
Neg32(x) == [sig |-> -x.sig, exp |-> x.exp]

\* the k with 2^23 <= a * 2^k / n < 2^24
RECURSIVE Scale(_, _, _)
Scale(a, n, k) == IF a * 2^k >= SigMin * n THEN k ELSE Scale(a, n, k + 1)

\* (s as f32) / (n as f32) for |s| < 2^24 and n < 2^24, both exact as f32:
\* the quotient rounded to nearest, ties to even
div_f32(s, n) ==
    IF s = 0 THEN Zero32
    ELSE LET a == Abs(s)
             k == Scale(a, n, 0)
             q == (a * 2^k) \div n
             r == (a * 2^k) % n
             m == IF 2 * r > n \/ (2 * r = n /\ q % 2 = 1) THEN q + 1 ELSE q
             sign == IF s < 0 THEN -1 ELSE 1
         IN IF m = SigMax THEN [sig |-> sign * SigMin, exp |-> 1 - k]
            ELSE [sig |-> sign * m, exp |-> -k]

\* x / 32768.0: a division by 2^15 only lowers the exponent
FULL_SCALE_LOG2 == 15
div_full_scale(x) ==
    IF x.sig = 0 THEN x ELSE [sig |-> x.sig, exp |-> x.exp - FULL_SCALE_LOG2]

\* a < b on f32 values
Lt32(a, b) ==
    LET below(x, y) == x.exp < y.exp \/ (x.exp = y.exp /\ Abs(x.sig) < Abs(y.sig))
    IN IF a.sig < 0 /\ b.sig < 0 THEN below(b, a)
       ELSE IF a.sig < 0 THEN TRUE
       ELSE IF b.sig <= 0 THEN FALSE
       ELSE a.sig = 0 \/ below(a, b)

\* the literal 0.999_5 as an f32: 0x3F7FDF3B = 16768827 * 2^-24
HEADROOM_SIG == 16768827
HEADROOM_EXP == 24
HEADROOM == [sig |-> HEADROOM_SIG, exp |-> -HEADROOM_EXP]

clamp_off(x, lo, hi) == x

\* f32::clamp
clamp(x, lo, hi) == IF Lt32(x, lo) THEN lo ELSE IF Lt32(hi, x) THEN hi ELSE x

\* mix_sample
mix_sample(sum, count) ==
    clamp(div_full_scale(div_f32(sum, count)), Neg32(HEADROOM), HEADROOM)

RECURSIVE Sum(_, _)
Sum(outs, i) == IF i > Len(outs) THEN 0 ELSE outs[i] + Sum(outs, i + 1)

\* Sid::output() values: the i16 range ends, 0 and its neighbours, and the
\* outputs on either side of the clamp (0.9995 * 32768 = 32751.6)
ChipOutputs == {-32768, -32752, -32751, -1, 0, 1, 32751, 32752, 32767}

\* one, two or three windows: 0xD400, 0xD420, 0xD500
MixWindows ==
    <<(<<PRIMARY_SID, Mos6581>>), (<<Unwrap(parse_sid_address(66)), Mos8580>>),
      (<<Unwrap(parse_sid_address(80)), Mos6581>>)>>

MixInit ==
    /\ ram = MemoryNew(Mos6581).ram
    /\ sids \in {configure_sids(SubSeq(MixWindows, 1, n)) : n \in 1..Len(MixWindows)}
    /\ access = NoAccess
    /\ file = <<>>
    /\ parsed = NotRun
    /\ PlayerInit
    /\ pc = "mix"
    /\ popup = "None"
    /\ SideInit

\* fill_buffer 196-203: one sample mixed from the outputs of the chips
MixSample(outs) ==
    /\ access' = [op |-> "mix_sample", outs |-> outs,
                  sample |-> mix_sample(Sum(outs, 1), Len(sids))]
    /\ UNCHANGED <<ram, sids>>

\* buffer.fill(0.0), lines 166 and 184
MixSilence ==
    /\ access' = [op |-> "fill", sample |-> Zero32]
    /\ UNCHANGED <<ram, sids>>

MixNext ==
    \/ /\ \E outs \in [1..Len(sids) -> ChipOutputs] : MixSample(outs)
       /\ UNCHANGED <<decVars, plyVars, appVars>>
    \/ /\ MixSilence
       /\ UNCHANGED <<decVars, plyVars, appVars>>

MixSpec == MixInit /\ [][MixNext]_vars

(***************************************************************************)
(* ChipSpec: chip swaps on a constructed player whose SID registers have   *)
(* been written by the tune's routines.                                    *)
(***************************************************************************)
SidIndexes == {None, Some(0), Some(1), Some(2), Some(3)}

\* registers 0x00, 0x18 and 0x19 of the windows at 0xD400 and 0xD420, and
\* 0x18 of the window at 0xD500
ChipProbeAddrs == {54272, 54296, 54297, 54304, 54328, 54329, 54552}

\* a store to a SID register executed by a routine of the tune
\* (cpu.single_step -> Bus::set_byte)
RoutineWrite(a, v) ==
    /\ alive
    /\ FirstWindow(sids, a, 1) # 0
    /\ SumRegs(sids, 1) < MaxWrites
    /\ sids' = set_byte(ram, sids, a, v).sids
    /\ last' = Call("write", "Ok", 0, "-")
    /\ UNCHANGED <<alive, tune, sample_rate, clock_hz, cycles_per_frame, acc,
                   frame_cycle_count, paused, playback_error, chip_models,
                   faulted, fills, envVars, buffer, ram>>

ChipNext ==
    \/ /\ \E t \in ApiTunes, rate \in SampleRates, o \in ChipOverrides, k \in InitSteps :
              New(t, rate, o, k)
       /\ UNCHANGED <<decVars, access, appVars>>
    \/ /\ \E a \in ChipProbeAddrs, v \in ProbeVals : RoutineWrite(a, v)
       /\ UNCHANGED <<decVars, access, appVars>>
    \/ /\ \E i \in SidIndexes : switch_chip_model(i)
       /\ UNCHANGED <<decVars, access, appVars>>

ChipSpec == Init /\ [][ChipNext]_vars

(***************************************************************************)
(* EnvSpec: the envelope telemetry.  The player starts as a successful     *)
(* load leaves it after any amount of playback: load_song keeps the rings, *)
(* load_sid_file zeroes them, neither moves envelope_write_pos.  One       *)
(* family of starts sweeps every write position with the rings full; the   *)
(* other sits one sample before the wrap of the write position and goes    *)
(* on playing.                                                             *)
(***************************************************************************)
EnvTunes ==
    {parse(f) : f \in {PlayerFile(PSID, 2, 4099, 0, 0, 0, 0),
                       PlayerFile(PSID, 3, 4099, 0, 40, 66, 80),
                       PlayerFile(PSID, 3, 4099, 0, 0, 64, 0)}}

SweepTune == parse(PlayerFile(PSID, 2, 4099, 0, 0, 0, 0))

\* captures made so far: full rings at every write position
SweepTotals == SCOPE_BUFFER_SIZE .. (2 * SCOPE_BUFFER_SIZE - 1)

\* captures made so far: none, and one short of the first and second wrap
WrapTotals == {0, SCOPE_BUFFER_SIZE - 1, 2 * SCOPE_BUFFER_SIZE - 1}

EnvStart(t, total, held, counter, advanced) ==
    LET models == select_chip_models(t, None) IN
    /\ alive = TRUE
    /\ tune = t
    /\ sample_rate \in SampleRates
    /\ clock_hz = timing_from_file(t).clock_hz
    /\ cycles_per_frame = timing_from_file(t).cycles_per_frame
    /\ chip_models = models
    /\ sids = bootstrap_cpu(t, models).sids
    /\ ram = routine_effect(bootstrap_cpu(t, models).ram, t.init_address)
    /\ acc = 0
    /\ frame_cycle_count = 0
    /\ paused = FALSE
    /\ playback_error = NoError
    /\ envelope_history = [voices |-> Len(models) * 3, held |-> held, total |-> total]
    /\ envelope_write_pos = total % SCOPE_BUFFER_SIZE
    /\ envelope_sample_counter = counter
    /\ buffer = 0
    /\ last = Call("load_song", "Ok", 0, "-")
    /\ faulted = FALSE
    /\ fills = advanced

EnvInit ==
    /\ \/ \E total \in SweepTotals :
             EnvStart(SweepTune, total, SCOPE_BUFFER_SIZE, 0, MaxFills)
       \/ \E t \in EnvTunes, total \in WrapTotals :
             \E held \in {0, Min(total, SCOPE_BUFFER_SIZE)} :
                EnvStart(t, total, held, ENVELOPE_SAMPLE_DIVISOR - 1, 0)
    /\ access = NoAccess
    /\ file = <<>>
    /\ parsed = NotRun
    /\ pc = "api"
    /\ popup = "None"
    /\ SideInit

\* a call of Player::envelope_samples
EnvelopeSamples ==
    /\ alive
    /\ access' = [op |-> "envelope_samples", paused |-> paused,
                  history |-> envelope_history, pos |-> envelope_write_pos,
                  res |-> envelope_samples(envelope_history, envelope_write_pos, paused)]
    /\ UNCHANGED <<ram, sids>>

\* a call of Player::voice_levels with every envelope counter at env
VoiceLevels(env) ==
    /\ alive
    /\ access' = [op |-> "voice_levels", paused |-> paused, env |-> env,
                  res |-> voice_levels(sids, paused, env)]
    /\ UNCHANGED <<ram, sids>>

EnvLevels == {0, 255}

EnvNext ==
    \/ /\ EnvelopeSamples
       /\ UNCHANGED <<decVars, plyVars, appVars>>
    \/ /\ \E env \in EnvLevels : VoiceLevels(env)
       /\ UNCHANGED <<decVars, plyVars, appVars>>
    \/ /\ toggle_pause
       /\ UNCHANGED <<decVars, access, appVars>>
    \/ /\ \E n \in 1..MaxSamples, j \in 0..2 :
              /\ Silenced(paused, playback_error) \/ fills < MaxFills
              /\ fill_buffer(n, j)
       /\ UNCHANGED <<decVars, access, appVars>>

EnvSpec == EnvInit /\ [][EnvNext]_vars

(***************************************************************************)
(* AppSpec: the player as the program drives it.  main (main.rs 72-114)    *)
(* builds it and starts the audio callback; the TUI handlers of            *)
(* tui/app.rs run on the control thread, each lock section one step, with  *)
(* the audio callback free to run between them.                            *)
(***************************************************************************)
SAMPLE_RATE == 44100
BUFFER_SIZE == 1024

AppFiles == PlayerFiles \cup {MkFile(Header(XSID, 2, 124, 124, 4096, 4099, 0, 0, 0, 0, <<96>>))}

PlayerUnchanged ==
    UNCHANGED <<alive, tune, sample_rate, clock_hz, cycles_per_frame, acc,
                frame_cycle_count, paused, playback_error, chip_models, faulted,
                fills, envVars, buffer, sids, ram>>

AppInit ==
    /\ PlayerInit
    /\ file = <<>>
    /\ parsed = NotRun
    /\ ram = EmptyMap
    /\ sids = <<>>
    /\ access = NoAccess
    /\ pc = "start"
    /\ popup = "None"
    /\ SideInit

\* main: SidFile::load, the requires_full_emulation guard, create_shared_player
AppMain(f, chip, k) ==
    /\ pc = "start"
    /\ IF ~parse(f).ok
       THEN /\ pc' = "exit"
            /\ last' = Call("main", "load failed", 0, "-")
            /\ PlayerUnchanged
       ELSE IF requires_full_emulation(parse(f))
       THEN /\ pc' = "exit"
            /\ last' = Call("main", "Unsupported", 0, "-")
            /\ PlayerUnchanged
       ELSE /\ New(parse(f), SAMPLE_RATE, chip, k)
            /\ pc' = IF run_init(k) = "Ok" THEN "idle" ELSE "exit"
    /\ UNCHANGED popup

\* App::play_sid_file up to the release of the player lock.  It is called
\* from key handlers, which run only when no popup consumes the key
\* (input.rs handle_popups), and from the automatic advance of App::update,
\* which does not run while the error popup shows (app.rs 200-203).
AppPlaySidFile(t, k) ==
    /\ pc = "idle"
    /\ popup = "None"
    /\ IF requires_full_emulation(t)
       THEN /\ pc' = "show_error"
            /\ last' = Call("play_sid_file", "Unsupported", 0, "-")
            /\ PlayerUnchanged
       ELSE /\ load_sid_file(t, k)
            /\ pc' = IF run_init(k) = "Ok" THEN "idle" ELSE "show_error"
    /\ UNCHANGED popup

\* App::load_song_on_player up to the release of the player lock; its
\* callers are those of play_sid_file
AppLoadSong(k) ==
    /\ pc = "idle"
    /\ popup = "None"
    /\ load_song(k)
    /\ pc' = IF run_init(k) = "Ok" THEN "idle" ELSE "show_error"
    /\ UNCHANGED popup

\* App::update: the lock section that polls take_error
AppUpdate ==
    /\ pc = "idle"
    /\ take_error
    /\ pc' = IF playback_error # NoError THEN "show_error" ELSE "idle"
    /\ UNCHANGED popup

\* a show_error that leaves the player as it is
AppShowErrorNoPause ==
    /\ pc = "show_error_lock"
    /\ pc' = "idle"
    /\ last' = Call("show_error", "-", 0, "-")
    /\ PlayerUnchanged
    /\ UNCHANGED popup

\* App::show_error: the popup is set, then the lock is taken to pause
AppShowErrorPopup ==
    /\ pc = "show_error"
    /\ popup' = "Error"
    /\ pc' = "show_error_lock"
    /\ UNCHANGED last
    /\ PlayerUnchanged

AppShowErrorPause ==
    /\ pc = "show_error_lock"
    /\ IF ~paused
       THEN toggle_pause
       ELSE UNCHANGED last /\ PlayerUnchanged
    /\ pc' = "idle"
    /\ UNCHANGED popup

\* a key while the error popup shows closes it (input.rs handle_popups)
AppClosePopup ==
    /\ pc = "idle"
    /\ popup = "Error"
    /\ popup' = "None"
    /\ UNCHANGED <<pc, last>>
    /\ PlayerUnchanged

\* the space key with no popup showing: App::toggle_pause
AppTogglePause ==
    /\ pc = "idle"
    /\ popup = "None"
    /\ toggle_pause
    /\ UNCHANGED <<pc, popup>>

\* the audio thread's callback: lock, fill_buffer(data)
AudioCallback(j) ==
    /\ WithinBudget(BUFFER_SIZE, MaxCallbacks, MaxCallbacks * BUFFER_SIZE)
    /\ fill_buffer(BUFFER_SIZE, j)
    /\ UNCHANGED <<pc, popup>>

AppNext ==
    \/ /\ \E f \in AppFiles, o \in ChipOverrides, k \in InitSteps : AppMain(f, o, k)
       /\ UNCHANGED <<decVars, access, sideVars>>
    \/ /\ \E t \in PlayerTunes, k \in InitSteps : AppPlaySidFile(t, k)
       /\ UNCHANGED <<decVars, access, sideVars>>
    \/ /\ \E k \in InitSteps : AppLoadSong(k)
       /\ UNCHANGED <<decVars, access, sideVars>>
    \/ /\ AppUpdate
       /\ UNCHANGED <<decVars, access, sideVars>>
    \/ /\ AppShowErrorPopup
       /\ UNCHANGED <<decVars, access, sideVars>>
    \/ /\ AppShowErrorPause
       /\ UNCHANGED <<decVars, access, sideVars>>
    \/ /\ AppClosePopup
       /\ UNCHANGED <<decVars, access, sideVars>>
    \/ /\ AppTogglePause
       /\ UNCHANGED <<decVars, access, sideVars>>
    \/ /\ \E j \in 0..2 : AudioCallback(j)
       /\ UNCHANGED <<decVars, access, sideVars>>

AppSpec == AppInit /\ [][AppNext]_vars

(***************************************************************************)
(* Properties                                                              *)
(***************************************************************************)
Loads == {"load_song", "load_sid_file"}

\* C1, as stated: once fill_buffer has recorded a PlayTimeout, no later
\* fill_buffer call advances emulation or writes anything but zeros until a
\* load succeeds, whatever take_error and toggle_pause calls come between.
C1_SilentUntilReload ==
    [][(faulted /\ last'.op = "fill_buffer")
        => (last'.res = "silent" /\ last'.clocks = 0)]_vars

\* C1, amended: after a recorded PlayTimeout and before a successful load,
\* a fill_buffer call made while the player is still paused or the error is
\* still stored writes only zeros and leaves the timing state untouched.
C1_SilentWhilePausedOrErrored ==
    [][(faulted /\ (paused \/ playback_error # NoError) /\ last'.op = "fill_buffer")
        => (/\ last'.res = "silent"
            /\ last'.clocks = 0
            /\ acc' = acc
            /\ frame_cycle_count' = frame_cycle_count
            /\ faulted')]_vars

\* C1 witness: the error was taken, the player is still paused, and a
\* fill_buffer call came back silent.
C1_Witness ==
    /\ faulted
    /\ paused
    /\ playback_error = NoError
    /\ last = Call("fill_buffer", "silent", 0, "-")

\* C2, as stated: a load_song or load_sid_file that returns InitTimeout
\* leaves the player paused.
C2_PausedAfterInitTimeout ==
    (alive /\ last.op \in Loads /\ last.res = "InitTimeout") => paused

Fresh ==
    /\ acc \in 0..(sample_rate - 1)
    /\ frame_cycle_count \in 0..(cycles_per_frame - 1)
    /\ paused = FALSE
    /\ playback_error = NoError

\* C3, as stated: right after Player::new returns a player and right after
\* any load_song or load_sid_file call, the accumulator is in [0,1), the
\* frame count in [0, cycles_per_frame), paused is false and no error is
\* stored.
C3_FreshAfterAnyLoad ==
    (alive /\ last.op \in Loads \cup {"new"}) => Fresh

\* C3, amended: the same, right after Player::new returns a player and right
\* after a load_song or load_sid_file call that returns Ok, from any prior
\* state.
C3_FreshAfterLoadOk ==
    (alive /\ last.op \in Loads \cup {"new"} /\ last.res = "Ok") => Fresh

\* C3 witness: a load_song that returned Ok on an errored player.
C3_Witness ==
    /\ last = Call("load_song", "Ok", 0, "Errored")
    /\ Fresh

PayloadLen(bytes) == Len(bytes) - read_u16_be(bytes, OFFSET_DATA)

\* C5, as stated: with a header load_address of 0 and fewer than 2 payload
\* bytes the decoder fails.
C5_TruncatedLoadAddressFails ==
    (/\ parsed # NotRun
     /\ Len(file) >= HEADER_MIN_SIZE
     /\ read_u16_be(file, OFFSET_LOAD) = 0
     /\ PayloadLen(file) \in {0, 1})
    => ~parsed.ok

C7_DataOffsetPastHeader ==
    parsed.ok =>
        /\ parsed.data_offset >= HEADER_MIN_SIZE
        /\ parsed.magic \in {"PSID", "RSID"}

Present(o) == IF IsSome(o) THEN 1 ELSE 0

\* C8, as stated: sid_count is 1 + (second present) + (third present), and
\* the player has that many windows.
C8_CountsEveryAddress ==
    alive =>
        /\ sid_count(tune) =
              1 + Present(tune.second_sid_address) + Present(tune.third_sid_address)
        /\ Len(sids) =
              1 + Present(tune.second_sid_address) + Present(tune.third_sid_address)

\* C8, amended: sid_count is 1 without a second address (a third one alone
\* is ignored) and 2 + (third present) with one; the player has exactly that
\* many windows and chip models.
C8_ThirdNeedsSecond ==
    alive =>
        LET n == IF IsSome(tune.second_sid_address)
                 THEN 2 + Present(tune.third_sid_address) ELSE 1
        IN /\ sid_count(tune) = n
           /\ Len(sids) = n
           /\ Len(chip_models) = n

\* C8 witness: a player holding a tune with a third address and no second.
C8_Witness ==
    /\ alive
    /\ ~IsSome(tune.second_sid_address)
    /\ IsSome(tune.third_sid_address)
    /\ Len(sids) = 1

\* C9, as stated: the register windows of the player's memory map are
\* pairwise disjoint.
C9_WindowsDisjoint ==
    alive =>
        \A i, k \in DOMAIN sids :
            i # k => (sids[i].base + SID_REGISTER_COUNT <= sids[k].base
                      \/ sids[k].base + SID_REGISTER_COUNT <= sids[i].base)

\* the first window whose 32 registers include a, 0 when there is none
Owner(ws, a) ==
    LET own == {i \in DOMAIN ws : a - ws[i].base \in 0..31}
    IN IF own = {} THEN 0 ELSE CHOOSE i \in own : \A k \in own : i <= k

\* C10: a write or read of address a goes to exactly one place: register
\* a - base of the first window with base <= a < base + 32, else RAM[a].  A
\* write outside every window is read back, a write inside one leaves RAM
\* alone, and with a lone second window at 0xD420 the addresses up to 0xD43F
\* are the chip's and 0xD440 is RAM.
C10_Routing ==
    /\ access.op = "set" =>
          LET a == access.addr
              o == Owner(access.sids0, a)
          IN IF o = 0
             THEN /\ sids = access.sids0
                  /\ ram = Wr(access.ram0, a, access.val)
                  /\ get_byte(ram, sids, a) =
                        [dest |-> "ram", chip |-> 0, reg |-> 0, val |-> access.val]
             ELSE /\ ram = access.ram0
                  /\ sids = [access.sids0 EXCEPT
                               ![o].regs = Wr(@, a - access.sids0[o].base, access.val)]
                  /\ get_byte(ram, sids, a).dest = "sid"
    /\ access.op = "get" =>
          LET a == access.addr
              o == Owner(sids, a)
          IN IF o = 0
             THEN access.res = [dest |-> "ram", chip |-> 0, reg |-> 0, val |-> Rd(ram, a)]
             ELSE /\ access.res.dest = "sid"
                  /\ access.res.chip = o
                  /\ access.res.reg = a - sids[o].base
    /\ (Len(sids) = 2 /\ sids[2].base = 54304) =>
          /\ get_byte(ram, sids, 54304).dest = "sid"
          /\ get_byte(ram, sids, 54304).chip = 2
          /\ get_byte(ram, sids, 54304).reg = 0
          /\ get_byte(ram, sids, 54335).dest = "sid"
          /\ get_byte(ram, sids, 54335).chip = 2
          /\ get_byte(ram, sids, 54335).reg = 31
          /\ get_byte(ram, sids, 54336).dest = "ram"

\* C10 witness: with windows at 0xD400 and 0xD420, a write to 0xD43F has
\* landed in register 31 of the second chip and RAM is untouched.
C10_Witness ==
    /\ access.op = "set"
    /\ access.addr = 54335
    /\ Len(sids) = 2
    /\ sids[2].base = 54304
    /\ Rd(sids[2].regs, 31) = access.val
    /\ ram = EmptyMap

\* a fill_buffer call with an n-sample buffer that went through the sample
\* loop without a play-routine timeout
PlayedStep(n) ==
    /\ \E j \in 0..2 : fill_buffer(n, j)
    /\ last'.res = "played"

\* C11: the accumulator (numerator acc over sample_rate) is always in [0,1),
\* and after a fill_buffer call that returns normally with n samples it is
\* the fractional part of accumulator_before + n * clock_hz / sample_rate.
C11_AccumulatorIsFraction ==
    [][/\ alive' => acc' \in 0..(sample_rate' - 1)
       /\ \A n \in 1..MaxSamples :
             PlayedStep(n) => acc' = (acc + n * clock_hz) % sample_rate]_vars

\* C11 witness: a second fill_buffer call has returned normally and left a
\* fraction that is not zero.
C11_Witness ==
    /\ last.op = "fill_buffer"
    /\ last.res = "played"
    /\ fills >= 2
    /\ acc > 0
    /\ acc < sample_rate

\* C12, as stated: every fill_buffer call made while Playing runs
\* floor(accumulator_before + n * cycles_per_sample) - floor(accumulator_before)
\* SID clock cycles.
C12_CyclesOfEveryCall ==
    [][\A n \in 1..MaxSamples :
          ((\E j \in 0..2 : fill_buffer(n, j)) /\ ~Silenced(paused, playback_error))
          => last'.clocks = ((acc + n * clock_hz) \div sample_rate) - (acc \div sample_rate)]_vars

\* C12, amended: every fill_buffer call made while Playing that meets no
\* play-routine timeout runs exactly that many cycles, and what it leaves
\* in the accumulator accounts for the rest, so consecutive calls neither
\* gain nor lose a cycle however the samples are split.
C12_CyclesOfPlayedCall ==
    [][\A n \in 1..MaxSamples :
          PlayedStep(n) =>
            /\ last'.clocks =
                  ((acc + n * clock_hz) \div sample_rate) - (acc \div sample_rate)
            /\ last'.clocks * sample_rate + acc' = acc + n * clock_hz]_vars

\* C12 witness: a call that ran through a frame boundary and a play call.
C12_Witness ==
    /\ last.op = "fill_buffer"
    /\ last.res = "played"
    /\ last.clocks > cycles_per_frame
    /\ fills >= 2

\* the exact mean of the outputs over 32768 lies outside the clamp
MeanExceeds(s, n) ==
    Abs(s) * 2^(HEADROOM_EXP - FULL_SCALE_LOG2) > n * HEADROOM_SIG

\* v is an f32 nearest to s / n / 32768
NearestToMean(v, s, n) ==
    IF s = 0 THEN v = Zero32
    ELSE /\ v.sig # 0
         /\ -v.exp >= FULL_SCALE_LOG2
         /\ 2 * Abs(v.sig * n - s * 2^(-v.exp - FULL_SCALE_LOG2)) <= n

\* C13: every sample fill_buffer writes, for 1 to 3 chips with any signed
\* 16-bit outputs, lies in [-0.9995, +0.9995]: it is the mean of the outputs
\* over 32768 (as the nearest f32), clamped to that interval; a silent
\* sample is 0.0; two chips at 0x7FFF give exactly 0.9995.
C13_SamplesWithinHeadroom ==
    /\ access.op \in {"mix_sample", "fill"} =>
          /\ ~Lt32(access.sample, Neg32(HEADROOM))
          /\ ~Lt32(HEADROOM, access.sample)
    /\ access.op = "mix_sample" =>
          LET s == Sum(access.outs, 1)
              n == Len(access.outs)
          IN /\ n = Len(sids)
             /\ n \in 1..3
             /\ IF MeanExceeds(s, n)
                THEN access.sample = (IF s > 0 THEN HEADROOM ELSE Neg32(HEADROOM))
                ELSE NearestToMean(access.sample, s, n)
             /\ access.outs = <<32767, 32767>> => access.sample = HEADROOM

\* C13 witness: two chips at 0x7FFF were mixed and the sample is the clamp.
C13_Witness ==
    /\ access.op = "mix_sample"
    /\ access.outs = <<32767, 32767>>
    /\ access.sample = HEADROOM

\* C14: a fill_buffer call made while paused fills the buffer with zeros
\* and leaves the emulation state as it was: RAM, SID state,
\* cycle_accumulator, frame_cycle_count, the envelope history with its
\* write position and sample counter, and with them the tune, the timing
\* and the flags, so what follows a resume does not depend on such calls.
C14_PausedFillChangesNothing ==
    [][\A n \in 1..MaxSamples :
          ((\E j \in 0..2 : fill_buffer(n, j)) /\ paused)
          => /\ buffer' = 0
             /\ last'.res = "silent"
             /\ last'.clocks = 0
             /\ UNCHANGED <<ram, sids, acc, frame_cycle_count, envVars>>
             /\ UNCHANGED <<alive, tune, sample_rate, clock_hz, cycles_per_frame,
                            paused, playback_error, chip_models>>]_vars

\* C14 witness: a silent call on a player paused by toggle_pause in the
\* middle of playback, with samples emitted and a fraction carried.
C14_Witness ==
    /\ last.op = "fill_buffer"
    /\ last.res = "silent"
    /\ paused
    /\ playback_error = NoError
    /\ ~faulted
    /\ acc > 0
    /\ frame_cycle_count > 0
    /\ Emitted >= ENVELOPE_SAMPLE_DIVISOR

\* C15: toggle_pause flips the paused flag and changes nothing else: not
\* RAM, the SIDs, the timing counters, the envelope telemetry or the stored
\* error; flipping twice gives the flag back, so two calls restore the
\* player state.
C15_ToggleFlipsOnlyPaused ==
    [][last'.op = "toggle_pause"
        => /\ paused' = ~paused
           /\ toggled(toggled(paused)) = paused
           /\ UNCHANGED <<ram, sids, acc, frame_cycle_count, envVars, buffer>>
           /\ UNCHANGED <<alive, tune, sample_rate, clock_hz, cycles_per_frame,
                          playback_error, chip_models>>]_vars

\* C15 witness: toggle_pause has just cleared the flag of a player that a
\* play fault had paused, its error still stored.
C15_Witness ==
    /\ last.op = "toggle_pause"
    /\ ~paused
    /\ playback_error # NoError
    /\ Emitted > 0

\* C16: when the play routine times out inside fill_buffer, the call
\* records the timeout in playback_error, sets paused, leaves the whole
\* buffer zero, the slots mixed earlier in the call included, stops
\* clocking the SIDs at the frame boundary where play was called, and
\* returns normally.
C16_PlayTimeoutInFill ==
    [][\A n \in 1..MaxSamples :
          ((\E j \in 0..2 : fill_buffer(n, j)) /\ last'.res = "fault")
          => /\ playback_error' = "PlayTimeout"
             /\ paused'
             /\ buffer' = 0
             /\ frame_cycle_count' = 0
             /\ last'.clocks <
                  ((acc + n * clock_hz) \div sample_rate) - (acc \div sample_rate)
             /\ alive']_vars

\* C16 witness: the first call that advanced emulation mixed a sample and
\* then met the timeout.
C16_Witness ==
    /\ last.op = "fill_buffer"
    /\ last.res = "fault"
    /\ fills = 1
    /\ Emitted >= 1
    /\ last.clocks > 0
    /\ buffer = 0

\* C17: for every valid window index i, switch_chip_model(i) leaves
\* registers 0x00..0x18 of window i at the values they had, keeps the
\* window's base address, gives it the other model of {6581, 8580}, and
\* leaves the other windows as they were.
C17_SwapKeepsRegisters ==
    [][\A i \in 0..2 :
          (switch_chip_model(Some(i)) /\ i < Len(sids) /\ i < Len(chip_models))
          => /\ Len(sids') = Len(sids)
             /\ \A r \in 0..24 : Rd(sids'[i + 1].regs, r) = Rd(sids[i + 1].regs, r)
             /\ sids'[i + 1].base = sids[i + 1].base
             /\ sids'[i + 1].model # sids[i + 1].model
             /\ sids'[i + 1].model \in {Mos6581, Mos8580}
             /\ chip_models'[i + 1] = sids'[i + 1].model
             /\ \A w \in 1..Len(sids) : w # i + 1 => sids'[w] = sids[w]
             /\ ram' = ram]_vars

\* C17 witness: the second window was swapped with its register 0x18
\* written and kept, and the first window holds a register too.
C17_Witness ==
    /\ last.op = "switch_chip_model"
    /\ Len(sids) >= 2
    /\ sids[2].model # select_chip_models(tune, None)[2]
    /\ Rd(sids[2].regs, 24) # 0
    /\ Rd(sids[1].regs, 24) # 0

\* C18: while not paused, envelope_samples returns for each voice 1024
\* values, oldest first: element j is ring slot (envelope_write_pos + j)
\* mod 1024, so the first element is the slot written next and the last
\* element the slot written most recently, at every write position.
C18_OldestFirst ==
    (access.op = "envelope_samples" /\ ~access.paused) =>
        LET h == access.history
            pos == access.pos
            res == access.res
        IN /\ Len(res) = h.voices
           /\ \A v \in 1..h.voices :
                 /\ Len(res[v]) = SCOPE_BUFFER_SIZE
                 /\ \A j \in 0..(SCOPE_BUFFER_SIZE - 1) :
                       res[v][j + 1] =
                           history_slot(h, pos, (pos + j) % SCOPE_BUFFER_SIZE)
                 /\ \A j \in 1..(SCOPE_BUFFER_SIZE - 1) : res[v][j] <= res[v][j + 1]
                 /\ h.held >= 1 => res[v][SCOPE_BUFFER_SIZE] = h.total
                 /\ h.held = SCOPE_BUFFER_SIZE =>
                       res[v][1] = h.total - (SCOPE_BUFFER_SIZE - 1)

\* C18 witness: a snapshot taken with full rings and the write position in
\* the middle of them.
C18_Witness ==
    /\ access.op = "envelope_samples"
    /\ ~access.paused
    /\ access.pos = 512
    /\ access.history.held = SCOPE_BUFFER_SIZE
    /\ access.res[1][1] = access.history.total - 1023
    /\ access.res[1][1024] = access.history.total

ZeroBuffers(count, len) == [v \in 1..count |-> [i \in 1..len |-> 0]]

\* C19: whenever paused is set, by toggle_pause or by a play fault,
\* envelope_samples returns 3 * sid_count buffers of 1024 zeros and
\* voice_levels returns 3 * sid_count zeros; neither call changes the
\* stored history or a SID, and unpausing leaves the stored history, which
\* envelope_samples then returns, as it was.
C19_PausedTelemetryIsZero ==
    [][/\ (access' # access /\ access'.op = "envelope_samples") =>
            /\ UNCHANGED <<envVars, sids, ram, paused, chip_models>>
            /\ paused => access'.res =
                            ZeroBuffers(3 * Len(chip_models), SCOPE_BUFFER_SIZE)
       /\ (access' # access /\ access'.op = "voice_levels") =>
            /\ UNCHANGED <<envVars, sids, ram, paused, chip_models>>
            /\ paused => access'.res = [i \in 1..(3 * Len(chip_models)) |-> 0]
       /\ (paused /\ ~paused') =>
            /\ UNCHANGED <<envVars, sids>>
            /\ envelope_samples(envelope_history', envelope_write_pos', paused')
                  = [v \in 1..envelope_history.voices |->
                       [j \in 1..SCOPE_BUFFER_SIZE |->
                          history_slot(envelope_history, envelope_write_pos,
                                       (envelope_write_pos + j - 1)
                                           % SCOPE_BUFFER_SIZE)]]]_vars

\* C19 witness: voice_levels asked of a three-SID player that a play fault
\* paused, its envelope counters non-zero, answered nine zeros.
C19_Witness ==
    /\ access.op = "voice_levels"
    /\ access.paused
    /\ access.env = 255
    /\ paused
    /\ playback_error # NoError
    /\ Len(sids) = 3
    /\ access.res = [i \in 1..9 |-> 0]

\* C20, as stated: load_song followed by load_song leaves the player in the
\* same emulation state (RAM, SID registers, timing counters, flags) as a
\* single load_song, also for tunes whose init routine writes RAM outside
\* the payload and outside 0x0000-0x01FF.
C20_LoadSongIdempotent ==
    [][(/\ last.op = "load_song"
        /\ last.res = "Ok"
        /\ last'.op = "load_song"
        /\ last'.res = "Ok")
        => /\ ram' = ram
           /\ sids' = sids
           /\ acc' = acc
           /\ frame_cycle_count' = frame_cycle_count
           /\ paused' = paused
           /\ playback_error' = playback_error]_vars

(***************************************************************************)
(* LockSpec: the shared player behind its mutex.  The audio thread's       *)
(* callback (main.rs 104-114) takes the lock, runs fill_buffer one sample  *)
(* of the loop at a time and drops the lock; the control thread takes the  *)
(* lock for each Player call of tui/app.rs and drops it after the call.    *)
(* The threads interleave at every step.                                   *)
(***************************************************************************)
MaxBuffer == 3

LockTunes ==
    {parse(f) : f \in {PlayerFile(PSID, 2, 4099, 0, 0, 0, 0),
                       PlayerFile(PSID, 3, 4099, 0, 40, 66, 80)}}

\* the Player calls the control thread makes, each inside player.lock()
CtlOps == {"toggle_pause", "load_song", "load_sid_file", "switch_chip_model", "update"}

lock_unguarded(m) == m # "poisoned"

\* Mutex::lock succeeds at once only on a mutex nobody holds; lock() on a
\* poisoned mutex returns Err
lock_available(m) == m = "free"

\* the player state a fill_buffer call starts from
FillStart ==
    [acc |-> acc, fcc |-> frame_cycle_count, tune |-> tune, chips |-> chip_models,
     cpf |-> cycles_per_frame, clk |-> clock_hz, models |-> [i \in DOMAIN sids |-> sids[i].model],
     emitted |-> Emitted, silent |-> Silenced(paused, playback_error),
     paused |-> paused, error |-> playback_error]

\* main: create_shared_player, then the audio stream and the TUI start.
\* `accepted` is the SID library's answer to set_sampling_parameters.
LockMain(t, rate, chip, k, accepted) ==
    /\ pc = "start"
    /\ IF accepted
       THEN /\ New(t, rate, chip, k)
            /\ pc' = IF run_init(k) = "Ok" THEN "idle" ELSE "exit"
       ELSE /\ pc' = "exit"
            /\ last' = Call("new", "panic", 0, "refused")
            /\ PlayerUnchanged
    /\ UNCHANGED <<popup, sideVars>>

\* the callback: player.lock(), then fill_buffer up to line 170
AudioLock(n, j) ==
    /\ pc \notin {"start", "exit"}
    /\ audio.at = "idle"
    /\ lock_available(mutex)
    /\ WithinBudget(n, MaxCallbacks, MaxCallbacks * MaxBuffer)
    /\ mutex' = "audio"
    /\ audio' = [at |-> IF Silenced(paused, playback_error) THEN "done" ELSE "filling",
                 n |-> n, j |-> j, i |-> 0, plays |-> 0, clocks |-> 0,
                 fault |-> FALSE, from |-> FillStart]
    /\ buffer' = 0
    /\ UNCHANGED last
    /\ UNCHANGED <<alive, tune, sample_rate, clock_hz, cycles_per_frame, acc,
                   frame_cycle_count, paused, playback_error, chip_models, faulted,
                   fills, envVars, sids, ram>>
    /\ UNCHANGED <<pc, popup, cpu, playlist, browser>>

\* one iteration of `for sample in buffer.iter_mut()`, lines 172-207
AudioSample ==
    /\ audio.at = "filling"
    /\ LET st == FillSamples([acc |-> acc, fcc |-> frame_cycle_count,
                              plays |-> audio.plays, clocks |-> audio.clocks,
                              fault |-> FALSE, done |-> 0],
                             1, sample_rate, clock_hz, cycles_per_frame,
                             tune.play_address, audio.j, PLAY_MAX_STEPS)
           e == capture_envelope_history(envelope_history, envelope_write_pos,
                                         envelope_sample_counter, st.done)
       IN /\ acc' = st.acc
          /\ frame_cycle_count' = st.fcc
          /\ paused' = (st.fault \/ paused)
          /\ playback_error' = IF st.fault THEN "PlayTimeout" ELSE playback_error
          /\ faulted' = (st.fault \/ faulted)
          /\ buffer' = IF st.fault THEN fault_buffer(audio.i) ELSE audio.i + 1
          /\ envelope_history' = e.history
          /\ envelope_write_pos' = e.pos
          /\ envelope_sample_counter' = e.counter
          /\ ram' = IF st.plays > audio.plays /\ tune.play_address # 0
                    THEN reset_stack(ram, sids).ram ELSE ram
          /\ audio' = [audio EXCEPT
                          !.at = IF st.fault \/ audio.i + 1 = audio.n
                                 THEN "done" ELSE "filling",
                          !.i = audio.i + 1, !.plays = st.plays,
                          !.clocks = st.clocks, !.fault = st.fault]
    /\ UNCHANGED last
    /\ UNCHANGED <<alive, tune, sample_rate, clock_hz, cycles_per_frame,
                   chip_models, fills, sids>>
    /\ UNCHANGED <<pc, popup, mutex, cpu, playlist, browser>>

\* fill_buffer returns and the guard `p` is dropped
AudioUnlock ==
    /\ audio.at = "done"
    /\ mutex' = IF mutex = "audio" THEN "free" ELSE mutex
    /\ audio' = NoAudio
    /\ last' = Call("fill_buffer",
                    IF audio.from.silent THEN "silent"
                    ELSE IF audio.fault THEN "fault" ELSE "played",
                    audio.clocks, "-")
    /\ fills' = IF audio.from.silent THEN fills ELSE fills + 1
    /\ UNCHANGED <<alive, tune, sample_rate, clock_hz, cycles_per_frame, acc,
                   frame_cycle_count, paused, playback_error, chip_models, faulted,
                   envVars, buffer, sids, ram>>
    /\ UNCHANGED <<pc, popup, cpu, playlist, browser>>

\* `if let Ok(mut p) = player.lock()` on a poisoned mutex: the callback
\* returns without touching the player
AudioPoisoned ==
    /\ mutex = "poisoned"
    /\ last.op # "audio_callback"
    /\ last' = Call("audio_callback", "skipped", 0, last.from)
    /\ PlayerUnchanged
    /\ UNCHANGED <<pc, popup, sideVars>>

\* a handler of tui/app.rs reaches its player.lock()
CtlLock(op) ==
    /\ pc = "idle"
    /\ lock_available(mutex)
    /\ mutex' = "control"
    /\ pc' = op
    /\ UNCHANGED last
    /\ PlayerUnchanged
    /\ UNCHANGED <<popup, audio, cpu, playlist, browser>>

\* the Player call made under the lock, and the guard dropped after it.
\* A refused set_sampling_parameters is unwrapped (lines 292 and 397): the
\* thread panics holding the guard, which poisons the mutex.
CtlCall(t, k, sid_index, accepted) ==
    /\ pc \in CtlOps
    /\ IF pc \in {"load_sid_file", "switch_chip_model"} /\ ~accepted
       THEN /\ mutex' = "poisoned"
            /\ pc' = "panicked"
            /\ last' = Call(pc, "panic", 0, "refused")
            /\ PlayerUnchanged
       ELSE /\ CASE pc = "toggle_pause" -> toggle_pause
              [] pc = "load_song" -> load_song(k)
              [] pc = "load_sid_file" -> load_sid_file(t, k)
              [] pc = "switch_chip_model" -> switch_chip_model(sid_index)
              [] pc = "update" -> take_error
            /\ mutex' = IF mutex = "control" THEN "free" ELSE mutex
            /\ pc' = "idle"
    /\ UNCHANGED <<popup, audio, cpu, playlist, browser>>

LockNext ==
    \/ /\ \E t \in LockTunes, rate \in SampleRates, k \in InitSteps,
            accepted \in BOOLEAN : LockMain(t, rate, None, k, accepted)
       /\ UNCHANGED <<decVars, access>>
    \/ /\ \E j \in 0..1 : AudioLock(MaxBuffer, j)
       /\ UNCHANGED <<decVars, access>>
    \/ /\ AudioSample
       /\ UNCHANGED <<decVars, access>>
    \/ /\ AudioUnlock
       /\ UNCHANGED <<decVars, access>>
    \/ /\ AudioPoisoned
       /\ UNCHANGED <<decVars, access>>
    \/ /\ \E op \in CtlOps : CtlLock(op)
       /\ UNCHANGED <<decVars, access>>
    \/ /\ \E t \in LockTunes, k \in InitSteps, i \in {None, Some(1)},
            accepted \in BOOLEAN : CtlCall(t, k, i, accepted)
       /\ UNCHANGED <<decVars, access>>

LockSpec == AppInit /\ [][LockNext]_vars

\* C21: fill_buffer and every control operation run under the one player
\* mutex, so a control mutation takes effect only at a buffer boundary:
\* while a callback is inside fill_buffer it holds the mutex, no control
\* call is in progress, the tune, timing and chip configuration are those
\* the call started from, the slots written so far are 0..i-1 in index
\* order, and the player state is exactly what the loop of fill_buffer
\* makes of the starting state in i iterations.
C21_FillUnderOneConfiguration ==
    /\ (audio.at # "idle" => mutex = "audio")
    /\ (pc \in CtlOps => (mutex = "control" /\ audio.at = "idle"))
    /\ (audio.at # "idle" =>
          LET from == audio.from
              w == FillSamples([acc |-> from.acc, fcc |-> from.fcc, plays |-> 0,
                                clocks |-> 0, fault |-> FALSE, done |-> 0],
                               audio.i, sample_rate, from.clk, from.cpf,
                               from.tune.play_address, audio.j, PLAY_MAX_STEPS)
          IN /\ tune = from.tune
             /\ chip_models = from.chips
             /\ cycles_per_frame = from.cpf
             /\ clock_hz = from.clk
             /\ [i \in DOMAIN sids |-> sids[i].model] = from.models
             /\ IF from.silent
                THEN /\ audio.at = "done"
                     /\ buffer = 0
                     /\ <<acc, frame_cycle_count, paused, playback_error, Emitted>>
                          = <<from.acc, from.fcc, from.paused, from.error, from.emitted>>
                ELSE /\ acc = w.acc
                     /\ frame_cycle_count = w.fcc
                     /\ audio.fault = w.fault
                     /\ paused = w.fault
                     /\ playback_error = (IF w.fault THEN "PlayTimeout" ELSE NoError)
                     /\ buffer = (IF w.fault THEN 0 ELSE audio.i)
                     /\ w.done = (IF w.fault THEN audio.i - 1 ELSE audio.i)
                     /\ Emitted = from.emitted + w.done
                     /\ audio.clocks = w.clocks)

\* C21 witness: a callback inside fill_buffer with one sample written and
\* more to go, on a player the control thread has reloaded with another
\* tune and unpaused before this buffer began.
C21_Witness ==
    /\ audio.at = "filling"
    /\ audio.i = 1
    /\ buffer = 1
    /\ mutex = "audio"
    /\ fills = 1
    /\ last.op = "load_sid_file"
    /\ last.res = "Ok"
    /\ Len(chip_models) = 3
    /\ ~is_pal(tune)

\* C22, as stated: when the SID library refuses set_sampling_parameters
\* during Player::new, load_sid_file or switch_chip_model, the call returns
\* the initialization error ConfigureSid, and it does not abort holding the
\* player lock: the mutex is never poisoned.
C22_RefusalReturnedAsError ==
    /\ (last.from = "refused" => last.res = "ConfigureSid")
    /\ mutex # "poisoned"

(***************************************************************************)
(* HarnessSpec: the routine harness with the 6502 visible.  The CPU is     *)
(* booted as Player::new boots it, run_routine runs one loop iteration a   *)
(* step, and the outcome is handed on as Player::new does.  The            *)
(* instructions interpreted are those of the routines used here: NOP, RTS, *)
(* JMP abs, LDA #imm and STA abs.                                          *)
(***************************************************************************)
MaxCeiling == 3

\* a SidFile with the given addresses and payload, one SID, PAL
RoutineTune(load_address, init_address, play_address, data) ==
    [parse(PlayerFile(PSID, 2, play_address, 0, 0, 0, 0)) EXCEPT
        !.load_address = load_address, !.init_address = init_address, !.data = data]

\* the same tune with the NTSC clock flag (speed 0: the 60 Hz frame)
Ntsc(t) == [t EXCEPT !.flags = 8]

\* RTS, NOP RTS and NOP NOP RTS at $1000; the RTS entered at $0000;
\* JMP $2000 at $2000; init RTS with play JMP $1001; init RTS with play
\* LDA #$0F / STA $D418 / RTS; a tune without play routine; a payload of
\* two bytes loaded at $0002 with its init RTS at $0003
HarnessTunes ==
    {RoutineTune(4096, 4096, 4096, <<96>>),
     RoutineTune(4096, 4096, 4097, <<234, 96>>),
     RoutineTune(4096, 4096, 4097, <<234, 234, 96>>),
     RoutineTune(4096, 0, 4096, <<96>>),
     RoutineTune(8192, 8192, 8192, <<76, 0, 32>>),
     RoutineTune(4096, 4096, 4097, <<96, 76, 1, 16>>),
     RoutineTune(4096, 4096, 4097, <<96, 169, 15, 141, 24, 212, 96>>),
     RoutineTune(4096, 4096, 0, <<96>>),
     RoutineTune(2, 3, 3, <<7, 96>>)}

\* the files handed to load_sid_file: NOP RTS and JMP $2000 under the NTSC
\* clock, and the payload loaded at $0002
HarnessReloads ==
    {Ntsc(RoutineTune(4096, 4096, 4097, <<234, 96>>)),
     Ntsc(RoutineTune(8192, 8192, 8192, <<76, 0, 32>>)),
     RoutineTune(2, 3, 3, <<7, 96>>)}

\* sample rates at which a sample is shorter than a frame: at 64 Hz a PAL
\* sample is 15394 cycles, at 54 Hz it is 18245, more than an NTSC frame
HarnessRates == {54, 64}

\* the values of max_steps: run_init's, run_play's, and small ones
Ceilings == (1..MaxCeiling) \cup {PLAY_MAX_STEPS, INIT_MAX_STEPS}

Word(x) == x % 65536

\* the registers after setup_stack_for_rts and the program_counter store
\* (bootstrap_cpu 526-531, load_song 323-327, call_play 431-432)
\* for the routine at `address` of the tune t
Registers(t, address, max_steps, kind) ==
    [at |-> "run", pc |-> address, sp |-> 253, a |-> 0, steps |-> 0,
     max |-> max_steps, kind |-> kind, address |-> address, tune |-> t]

single_step_no_store(c, m, ws) ==
    LET op == Rd(m, c.pc)
        operand == Rd(m, Word(c.pc + 1)) + 256 * Rd(m, Word(c.pc + 2))
    IN CASE op = 96 ->      \* RTS: pull PCL, PCH; PC = address + 1
              [cpu |-> [c EXCEPT
                          !.pc = Word(Rd(m, 256 + ((c.sp + 1) % 256))
                                      + 256 * Rd(m, 256 + ((c.sp + 2) % 256)) + 1),
                          !.sp = (c.sp + 2) % 256],
               ram |-> m, sids |-> ws]
         [] op = 76 ->      \* JMP abs
              [cpu |-> [c EXCEPT !.pc = operand], ram |-> m, sids |-> ws]
         [] op = 169 ->     \* LDA #imm
              [cpu |-> [c EXCEPT !.a = Rd(m, Word(c.pc + 1)), !.pc = Word(c.pc + 2)],
               ram |-> m, sids |-> ws]
         [] op = 141 ->     \* STA abs
              [cpu |-> [c EXCEPT !.pc = Word(c.pc + 3)],
               ram |-> m, sids |-> ws]
         [] OTHER ->        \* NOP
              [cpu |-> [c EXCEPT !.pc = Word(c.pc + 1)], ram |-> m, sids |-> ws]

\* cpu.single_step(): fetch at PC and execute
single_step(c, m, ws) ==
    LET op == Rd(m, c.pc)
        operand == Rd(m, Word(c.pc + 1)) + 256 * Rd(m, Word(c.pc + 2))
    IN CASE op = 96 ->      \* RTS: pull PCL, PCH; PC = address + 1
              [cpu |-> [c EXCEPT
                          !.pc = Word(Rd(m, 256 + ((c.sp + 1) % 256))
                                      + 256 * Rd(m, 256 + ((c.sp + 2) % 256)) + 1),
                          !.sp = (c.sp + 2) % 256],
               ram |-> m, sids |-> ws]
         [] op = 76 ->      \* JMP abs
              [cpu |-> [c EXCEPT !.pc = operand], ram |-> m, sids |-> ws]
         [] op = 169 ->     \* LDA #imm
              [cpu |-> [c EXCEPT !.a = Rd(m, Word(c.pc + 1)), !.pc = Word(c.pc + 2)],
               ram |-> m, sids |-> ws]
         [] op = 141 ->     \* STA abs
              [cpu |-> [c EXCEPT !.pc = Word(c.pc + 3)],
               ram |-> set_byte(m, ws, operand, c.a).ram,
               sids |-> set_byte(m, ws, operand, c.a).sids]
         [] OTHER ->        \* NOP
              [cpu |-> [c EXCEPT !.pc = Word(c.pc + 1)], ram |-> m, sids |-> ws]

pc_test_after_first_step(c) == c.pc = 0 /\ c.steps > 0

\* run_routine line 580: `if cpu.registers.program_counter == 0x0000`
pc_test(c) == c.pc = 0

loop_test_inclusive(c) == c.steps <= c.max

\* run_routine line 579: `while steps < max_steps`
loop_test(c) == c.steps < c.max

PlayerFieldsUnchanged ==
    UNCHANGED <<alive, tune, sample_rate, clock_hz, cycles_per_frame, acc,
                frame_cycle_count, paused, playback_error, chip_models, faulted,
                fills, envVars, buffer>>

\* Player::new up to the call of run_init, or run_routine called with a
\* smaller max_steps on the same CPU
HarnessBoot(t, max_steps) ==
    /\ ~alive
    /\ cpu.at = "off"
    /\ LET models == select_chip_models(t, None) IN
       /\ ram' = bootstrap_cpu(t, models).ram
       /\ sids' = bootstrap_cpu(t, models).sids
    /\ cpu' = Registers(t, t.init_address, max_steps, "init")
    /\ last' = Call("boot", "-", 0, "-")
    /\ UNCHANGED <<alive, tune, sample_rate, clock_hz, cycles_per_frame, acc,
                   frame_cycle_count, paused, playback_error, chip_models, faulted,
                   fills, envVars, buffer>>
    /\ UNCHANGED <<pc, popup, mutex, audio, playlist, browser>>

\* one iteration of the loop of run_routine, lines 579-585.  A step that
\* changes nothing (JMP to itself) repeats until the loop test fails, which
\* is taken at once.
HarnessStep ==
    /\ cpu.at = "run"
    /\ IF ~loop_test(cpu)
       THEN /\ cpu' = [cpu EXCEPT !.at = "timeout"]
            /\ UNCHANGED <<ram, sids>>
       ELSE IF pc_test(cpu)
       THEN /\ cpu' = [cpu EXCEPT !.at = "ok"]
            /\ UNCHANGED <<ram, sids>>
       ELSE LET r == single_step(cpu, ram, sids) IN
            /\ cpu' = [r.cpu EXCEPT !.steps = IF r.cpu = cpu /\ r.ram = ram /\ r.sids = sids
                                             THEN cpu.max ELSE cpu.steps + 1]
            /\ ram' = r.ram
            /\ sids' = r.sids
    /\ UNCHANGED <<tune, last>>
    /\ PlayerFieldsUnchanged
    /\ UNCHANGED <<pc, popup, mutex, audio, playlist, browser>>

\* the number of instructions after which the routine just run had PC = 0,
\* as New counts it: one that timed out has no such number below max_steps
StepsTaken(c) == IF c.at = "ok" THEN c.steps ELSE c.max

\* run_init returns into Player::new (line 131); run_routine called with a
\* smaller max_steps just returns
HarnessReturn(rate) ==
    /\ cpu.at \in {"ok", "timeout"}
    /\ cpu.kind = "init"
    /\ IF cpu.max = INIT_MAX_STEPS
       THEN /\ New(cpu.tune, rate, None, StepsTaken(cpu))
       ELSE /\ last' = Call("run_routine", IF cpu.at = "ok" THEN "Ok" ELSE "Timeout",
                            cpu.steps, "-")
            /\ PlayerUnchanged
    /\ cpu' = NoCpu
    /\ UNCHANGED <<pc, popup, mutex, audio, playlist, browser>>

\* SID clocks and play calls since the playback state was last reset
Timing(clocks, plays) == [op |-> "timing", clocks |-> clocks, plays |-> plays]

\* load_song up to the call of run_init (lines 307-331), after the fields
\* load_sid_file takes from the file when it is the caller
HarnessLoad(op, t) ==
    /\ alive
    /\ cpu.at = "off"
    /\ audio.at = "idle"
    /\ IF op = "load_sid_file"
       THEN /\ TakeTune(t, select_chip_models(t, None))
            /\ ram' = reload(ram, configure_sids(build_sid_configs(
                                      t, select_chip_models(t, None))), t).ram
            /\ sids' = reload(ram, configure_sids(build_sid_configs(
                                       t, select_chip_models(t, None))), t).sids
            /\ cpu' = Registers(t, t.init_address, INIT_MAX_STEPS, op)
       ELSE /\ ram' = reload(ram, sids, tune).ram
            /\ sids' = reload(ram, sids, tune).sids
            /\ cpu' = Registers(tune, tune.init_address, INIT_MAX_STEPS, op)
            /\ UNCHANGED <<tune, clock_hz, cycles_per_frame, chip_models,
                           envelope_history>>
    /\ last' = Call(op, "-", 0, StateName(paused, playback_error))
    /\ UNCHANGED <<alive, sample_rate, acc, frame_cycle_count, paused,
                   playback_error, faulted, fills, envelope_write_pos,
                   envelope_sample_counter, buffer>>
    /\ UNCHANGED <<access, pc, popup, mutex, audio, playlist, browser>>

\* run_init returns into load_song (lines 334-341)
HarnessLoadReturn ==
    /\ cpu.at \in {"ok", "timeout"}
    /\ cpu.kind \in {"load_song", "load_sid_file"}
    /\ IF cpu.at = "ok"
       THEN /\ acc' = ResetPlayback(paused).acc
            /\ frame_cycle_count' = ResetPlayback(paused).frame_cycle_count
            /\ paused' = ResetPlayback(paused).paused
            /\ playback_error' = ResetPlayback(paused).playback_error
            /\ faulted' = FALSE
            /\ access' = Timing(0, 0)
       ELSE UNCHANGED <<acc, frame_cycle_count, paused, playback_error, faulted,
                        access>>
    /\ last' = Call(cpu.kind, IF cpu.at = "ok" THEN "Ok" ELSE "InitTimeout",
                    cpu.steps, last.from)
    /\ cpu' = NoCpu
    /\ UNCHANGED <<alive, tune, sample_rate, clock_hz, cycles_per_frame,
                   chip_models, fills, envVars, buffer, sids, ram>>
    /\ UNCHANGED <<pc, popup, mutex, audio, playlist, browser>>

\* fill_buffer on a buffer of one sample, up to the cycle loop (165-176)
HarnessSampleBegin ==
    /\ alive
    /\ cpu.at = "off"
    /\ audio.at = "idle"
    /\ ~Silenced(paused, playback_error)
    /\ Emitted <= MaxSamples
    /\ fills <= MaxSamples
    /\ acc' = carry(acc + clock_hz, sample_rate)
    /\ audio' = [at |-> "cycles", left |-> cycles_to_run(acc + clock_hz, sample_rate),
                 seen |-> <<>>]
    /\ last' = Call("fill_buffer", "-", 0, "-")
    /\ buffer' = 0
    /\ UNCHANGED <<alive, tune, sample_rate, clock_hz, cycles_per_frame,
                   frame_cycle_count, paused, playback_error, chip_models, faulted,
                   fills, envVars, sids, ram>>
    /\ UNCHANGED <<access, pc, popup, mutex, cpu, playlist, browser>>

\* the cycles of the loop (178-194) that find frame_cycle_count below
\* cycles_per_frame, taken together: each clocks every SID and counts.
\* `seen` is the register file the chips are clocked with.
HarnessClock ==
    /\ audio.at = "cycles"
    /\ cpu.at = "off"
    /\ audio.left > 0
    /\ frame_cycle_count < cycles_per_frame
    /\ LET d == Min(audio.left, cycles_per_frame - frame_cycle_count) IN
       /\ frame_cycle_count' = frame_cycle_count + d
       /\ audio' = [audio EXCEPT !.left = @ - d,
                                 !.seen = [i \in DOMAIN sids |-> sids[i].regs]]
       /\ access' = Timing(access.clocks + d, access.plays)
    /\ UNCHANGED <<alive, tune, sample_rate, clock_hz, cycles_per_frame, acc,
                   paused, playback_error, chip_models, faulted, fills, envVars,
                   buffer, sids, ram, last>>
    /\ UNCHANGED <<pc, popup, mutex, cpu, playlist, browser>>

\* a cycle that finds frame_cycle_count >= cycles_per_frame: the counter is
\* zeroed and call_play entered (179-181, 422-434)
HarnessCallPlay ==
    /\ audio.at = "cycles"
    /\ cpu.at = "off"
    /\ audio.left > 0
    /\ frame_cycle_count >= cycles_per_frame
    /\ frame_cycle_count' = 0
    /\ access' = Timing(access.clocks, access.plays + 1)
    /\ IF tune.play_address = 0
       THEN /\ cpu' = [Registers(tune, 0, PLAY_MAX_STEPS, "play") EXCEPT !.at = "ok"]
            /\ UNCHANGED <<ram, sids>>
       ELSE /\ cpu' = Registers(tune, tune.play_address, PLAY_MAX_STEPS, "play")
            /\ ram' = reset_stack(ram, sids).ram
            /\ sids' = reset_stack(ram, sids).sids
    /\ UNCHANGED <<alive, tune, sample_rate, clock_hz, cycles_per_frame, acc,
                   paused, playback_error, chip_models, faulted, fills, envVars,
                   buffer, last>>
    /\ UNCHANGED <<pc, popup, mutex, audio, playlist, browser>>

\* call_play returns into the cycle loop: Ok goes on to clock the SIDs, an
\* error is recorded and ends fill_buffer (181-186)
HarnessPlayReturn ==
    /\ cpu.at \in {"ok", "timeout"}
    /\ cpu.kind = "play"
    /\ cpu' = NoCpu
    /\ IF cpu.at = "ok"
       THEN /\ frame_cycle_count' = frame_cycle_count + 1
            /\ audio' = [audio EXCEPT !.left = @ - 1,
                                      !.seen = [i \in DOMAIN sids |-> sids[i].regs]]
            /\ access' = Timing(access.clocks + 1, access.plays)
            /\ UNCHANGED <<paused, playback_error, faulted, buffer, last, fills>>
       ELSE /\ playback_error' = "PlayTimeout"
            /\ paused' = TRUE
            /\ faulted' = TRUE
            /\ buffer' = fault_buffer(0)
            /\ audio' = NoAudio
            /\ fills' = fills + 1
            /\ last' = Call("fill_buffer", "fault", 0, "-")
            /\ UNCHANGED <<frame_cycle_count, access>>
    /\ UNCHANGED <<alive, tune, sample_rate, clock_hz, cycles_per_frame, acc,
                   chip_models, envVars, sids, ram>>
    /\ UNCHANGED <<pc, popup, mutex, playlist, browser>>

\* the cycle loop is done: the sample is mixed and stored, the envelope
\* captured (196-206), and fill_buffer returns
HarnessSampleEnd ==
    /\ audio.at = "cycles"
    /\ cpu.at = "off"
    /\ audio.left = 0
    /\ buffer' = 1
    /\ LET e == capture_envelope_history(envelope_history, envelope_write_pos,
                                         envelope_sample_counter, 1)
       IN /\ envelope_history' = e.history
          /\ envelope_write_pos' = e.pos
          /\ envelope_sample_counter' = e.counter
    /\ audio' = NoAudio
    /\ fills' = fills + 1
    /\ last' = Call("fill_buffer", "played", 0, "-")
    /\ UNCHANGED <<alive, tune, sample_rate, clock_hz, cycles_per_frame, acc,
                   frame_cycle_count, paused, playback_error, chip_models, faulted,
                   sids, ram>>
    /\ UNCHANGED <<access, pc, popup, mutex, cpu, playlist, browser>>

\* toggle_pause, take_error and switch_chip_model between two fill_buffer
\* calls
HarnessControl(op) ==
    /\ cpu.at = "off"
    /\ audio.at = "idle"
    /\ CASE op = "toggle_pause" -> toggle_pause
         [] op = "take_error" -> take_error
         [] op = "switch_chip_model" -> switch_chip_model(None)
    /\ UNCHANGED <<access, appVars>>

HarnessInit ==
    /\ PlayerInit
    /\ file = <<>>
    /\ parsed = NotRun
    /\ ram = EmptyMap
    /\ sids = <<>>
    /\ access = Timing(0, 0)
    /\ pc = "api"
    /\ popup = "None"
    /\ SideInit

HarnessNext ==
    \/ /\ \E t \in HarnessTunes, m \in Ceilings : HarnessBoot(t, m)
       /\ UNCHANGED <<decVars, access>>
    \/ /\ HarnessStep
       /\ UNCHANGED <<decVars, access>>
    \/ /\ \E rate \in HarnessRates : HarnessReturn(rate)
       /\ UNCHANGED <<decVars, access>>
    \/ /\ \E op \in {"load_song", "load_sid_file"}, t \in HarnessReloads : HarnessLoad(op, t)
       /\ UNCHANGED decVars
    \/ /\ HarnessLoadReturn
       /\ UNCHANGED decVars
    \/ /\ HarnessSampleBegin
       /\ UNCHANGED decVars
    \/ /\ HarnessClock
       /\ UNCHANGED decVars
    \/ /\ HarnessCallPlay
       /\ UNCHANGED decVars
    \/ /\ HarnessPlayReturn
       /\ UNCHANGED decVars
    \/ /\ HarnessSampleEnd
       /\ UNCHANGED decVars
    \/ /\ \E op \in {"toggle_pause", "take_error", "switch_chip_model"} : HarnessControl(op)
       /\ UNCHANGED decVars

HarnessSpec == HarnessInit /\ [][HarnessNext]_vars

\* C23: run_init executes at most 1,000,000 instructions and run_play at
\* most 100,000 and then returns; an init routine whose PC never becomes 0
\* (JMP $2000 at $2000) makes Player::new return InitTimeout with steps =
\* 1,000,000 and address = init_address, no Player is created and no
\* sample is ever written without one.
C23_InitTimeoutCreatesNoPlayer ==
    /\ [](/\ (cpu.at # "off" => cpu.steps <= cpu.max)
          /\ (cpu.at # "off" /\ cpu.kind = "play" => cpu.max = PLAY_MAX_STEPS)
          /\ (cpu.at # "off" /\ cpu.kind \in {"load_song", "load_sid_file"}
                => cpu.max = INIT_MAX_STEPS)
          /\ (cpu.at \in {"ok", "timeout"} /\ cpu.tune.data = <<76, 0, 32>>
                => cpu.at = "timeout" /\ cpu.steps = cpu.max /\ cpu.pc # 0)
          /\ (~alive => buffer = 0 /\ fills = 0 /\ Emitted = 0 /\ audio.at = "idle"))
    /\ [][(/\ cpu.at = "timeout"
           /\ cpu.kind = "init"
           /\ cpu.max = INIT_MAX_STEPS
           /\ cpu'.at = "off")
          => /\ last' = Call("new", "InitTimeout", 0, "-")
             /\ cpu.steps = 1000000
             /\ cpu.address = cpu.tune.init_address
             /\ ~alive'
             /\ UNCHANGED <<buffer, fills, envVars>>]_vars

\* C23 witness: Player::new on JMP $2000 at $2000 has returned InitTimeout
\* and there is no player.
C23_Witness ==
    /\ last = Call("new", "InitTimeout", 0, "-")
    /\ ~alive
    /\ cpu.at = "off"
    /\ Rd(ram, 8192) = 76
    /\ buffer = 0

\* C26: the harness tests PC = 0 before each single step.  A routine
\* entered with PC = 0 returns success after zero instructions with the
\* registers and memory untouched (the RTS at $0000 is not executed), and
\* a routine that is a single RTS returns success after exactly one.
C26_PcTestedBeforeStep ==
    /\ [](/\ (cpu.at \in {"ok", "timeout"} /\ cpu.address = 0
                => cpu.at = "ok" /\ cpu.steps = 0 /\ cpu.sp = 253 /\ cpu.pc = 0)
          /\ (cpu.at = "ok" /\ cpu.address # 0 /\ Rd(ram, cpu.address) = 96
                => cpu.steps = 1)
          /\ (cpu.at \in {"ok", "timeout"} /\ cpu.address # 0
              /\ Rd(ram, cpu.address) = 96 /\ cpu.max \in {INIT_MAX_STEPS, PLAY_MAX_STEPS}
                => cpu.at = "ok"))
    /\ [][(cpu.at = "run" /\ cpu.pc = 0 /\ cpu.steps < cpu.max /\ cpu' # cpu)
          => /\ cpu' = [cpu EXCEPT !.at = "ok"]
             /\ UNCHANGED <<ram, sids>>]_vars

\* C26 witness: run_init entered at $0000 has returned Ok with no
\* instruction executed; the trap bytes are as installed.
C26_Witness ==
    /\ cpu.at = "ok"
    /\ cpu.address = 0
    /\ cpu.steps = 0
    /\ cpu.max = INIT_MAX_STEPS
    /\ Rd(ram, 0) = 96
    /\ Rd(ram, 510) = 255
    /\ Rd(ram, 511) = 255

\* C27, as stated: a timeout is reported only if PC is not 0 after each of
\* the first max_steps instructions; a routine whose k-th instruction sets
\* PC to 0 succeeds for every k <= max_steps, k = max_steps included.
C27_SuccessUpToCeiling ==
    cpu.at = "timeout" => cpu.pc # 0

(***************************************************************************)
(* PlaylistSpec: Playlist::add and Playlist::remove (playlist.rs).  A      *)
(* string is a sequence of one-character strings; an entry is its stored   *)
(* [source, subsong] (display_name is derived from source and left out).   *)
(***************************************************************************)
MaxEntries == 3

\* str::trim on the characters used here: the blank is the only whitespace
RECURSIVE trim_start(_)
trim_start(s) == IF s # <<>> /\ Head(s) = " " THEN trim_start(Tail(s)) ELSE s

RECURSIVE trim_end(_)
trim_end(s) ==
    IF s # <<>> /\ s[Len(s)] = " " THEN trim_end(SubSeq(s, 1, Len(s) - 1)) ELSE s

trim(s) == trim_end(trim_start(s))

\* s.rfind(c): the last position of c counted from 1, 0 when there is none
rfind(s, c) ==
    IF \E i \in DOMAIN s : s[i] = c
    THEN CHOOSE i \in DOMAIN s : s[i] = c /\ \A j \in DOMAIN s : s[j] = c => j <= i
    ELSE 0

DigitValue(c) == CASE c = "1" -> 1 [] c = "2" -> 2 [] OTHER -> 0 - 1

\* suffix.parse::<u16>() for strings of the digits used here
RECURSIVE parse_u16(_)
parse_u16(s) ==
    IF s = <<>> \/ \E i \in DOMAIN s : DigitValue(s[i]) < 0 THEN None
    ELSE IF Len(s) = 1 THEN Some(DigitValue(s[1]))
    ELSE LET front == parse_u16(SubSeq(s, 1, Len(s) - 1))
             v == Unwrap(front) * 10 + DigitValue(s[Len(s)])
         IN IF v > 65535 THEN None ELSE Some(v)

\* parse_subsong: the path and the optional @N suffix
parse_subsong(s) ==
    LET at_pos == rfind(s, "@")
        suffix == SubSeq(s, at_pos + 1, Len(s))
    IN IF at_pos # 0 /\ IsSome(parse_u16(suffix))
       THEN [path |-> SubSeq(s, 1, at_pos - 1), subsong |-> parse_u16(suffix)]
       ELSE [path |-> s, subsong |-> None]

\* PlaylistEntry::new
PlaylistEntry(source) ==
    LET trimmed == trim(source) IN
    IF trimmed = <<>> \/ Head(trimmed) = "#" THEN None
    ELSE Some([source |-> parse_subsong(trimmed).path,
               subsong |-> parse_subsong(trimmed).subsong])

\* Playlist::contains
playlist_contains(entries, source, subsong) ==
    \E i \in DOMAIN entries :
        entries[i].source = source /\ entries[i].subsong = subsong

\* Playlist::add: the entries afterwards and the value returned
add(entries, source, subsong) ==
    IF playlist_contains(entries, source, subsong)
    THEN [entries |-> entries, added |-> FALSE]
    ELSE IF IsSome(PlaylistEntry(source))
    THEN [entries |-> Append(entries,
                             [Unwrap(PlaylistEntry(source)) EXCEPT !.subsong = subsong]),
          added |-> TRUE]
    ELSE [entries |-> entries, added |-> FALSE]

\* Playlist::remove; index counts from 0
remove(entries, index) ==
    IF index < Len(entries)
    THEN [i \in 1..(Len(entries) - 1) |->
             IF i <= index THEN entries[i] ELSE entries[i + 1]]
    ELSE entries

\* "a", " a", "a ", "a@1", "a@b", "a@", "b", "#a", " " and ""
PlaylistSources ==
    {<<"a">>, <<" ", "a">>, <<"a", " ">>, <<"a", "@", "1">>, <<"a", "@", "b">>,
     <<"a", "@">>, <<"b">>, <<"#", "a">>, <<" ">>, <<>>}

Subsongs == {None, Some(1), Some(2)}

PlaylistAdd(source, subsong) ==
    /\ Len(playlist) < MaxEntries
    /\ playlist' = add(playlist, source, subsong).entries
    /\ last' = Call("add", IF add(playlist, source, subsong).added THEN "true" ELSE "false",
                    0, "-")
    /\ UNCHANGED <<mutex, audio, cpu, pc, popup, browser>>

PlaylistRemove(index) ==
    /\ playlist' = remove(playlist, index)
    /\ last' = Call("remove", "-", 0, "-")
    /\ UNCHANGED <<mutex, audio, cpu, pc, popup, browser>>

PlaylistNext ==
    \/ /\ \E source \in PlaylistSources, subsong \in Subsongs :
              PlaylistAdd(source, subsong)
       /\ PlayerUnchanged
       /\ UNCHANGED <<decVars, access>>
    \/ /\ \E index \in 0..MaxEntries : PlaylistRemove(index)
       /\ PlayerUnchanged
       /\ UNCHANGED <<decVars, access>>

PlaylistSpec == Init /\ [][PlaylistNext]_vars

\* C24, as stated: starting from the empty playlist, after any sequence of
\* add and remove no two entries share the same stored (source, subsong),
\* also for sources with surrounding whitespace or an '@N' suffix; and add
\* returns true only if no existing entry has the (source, subsong) of the
\* entry it appends.
C24_NoDuplicateEntries ==
    \A i, j \in DOMAIN playlist :
          (playlist[i].source = playlist[j].source
           /\ playlist[i].subsong = playlist[j].subsong) => i = j

\* the byte the payload of t puts at address a, 0 outside its load range
PayloadByte(t, a) ==
    IF a >= t.load_address /\ a < t.load_address + LoadCount(t.load_address, Len(t.data))
    THEN t.data[a - t.load_address + 1] ELSE 0

InitStarts ==
    /\ cpu.at = "run"
    /\ cpu.steps = 0
    /\ cpu.kind \in {"load_song", "load_sid_file"}

\* C25, as stated: the payload is loaded before zero page and stack are
\* cleared, so when init starts after load_song every byte of
\* 0x0000-0x01FF is 0 except the trap bytes (0x0000 = 0x60, 0x01FE =
\* 0x01FF = 0xFF), even when the payload's load range overlaps that area.
C25_ZeroPageClearedAfterLoad ==
    InitStarts =>
        \A a \in 0..(STACK_END - 1) :
            Rd(ram, a) = (IF a = 0 THEN 96 ELSE IF a \in {510, 511} THEN 255 ELSE 0)

\* C25, amended: zero page and stack are cleared before the payload is
\* loaded.  When init starts after load_song, 0x0000 holds 0x60 and 0x01FE
\* and 0x01FF hold 0xFF, and every other byte of 0x0000-0x01FF holds the
\* payload's byte where the load range covers it and 0 elsewhere.
C25_ZeroPageClearedBeforeLoad ==
    InitStarts =>
        \A a \in 0..(STACK_END - 1) :
            Rd(ram, a) = (IF a = 0 THEN 96 ELSE IF a \in {510, 511} THEN 255
                          ELSE PayloadByte(cpu.tune, a))

\* C25 witness: init is about to start after load_song of the tune whose
\* payload is loaded at $0002; its bytes are in zero page.
C25_Witness ==
    /\ InitStarts
    /\ cpu.kind = "load_song"
    /\ cpu.tune.load_address = 2
    /\ Rd(ram, 2) = 7
    /\ Rd(ram, 3) = 96
    /\ Rd(ram, 4) = 0
    /\ Rd(ram, 0) = 96

\* C28, as stated: while Playing, after C >= 1 SID clocks since new or the
\* last load_song play has been invoked floor((C - 1) / cycles_per_frame)
\* times: the first invocation comes after exactly cycles_per_frame clocks
\* and exactly cycles_per_frame clocks separate two invocations.
C28_PlayEveryFrame ==
    (/\ alive
     /\ StateName(paused, playback_error) = "Playing"
     /\ cpu.at = "off"
     /\ access.clocks >= 1)
    => access.plays = (access.clocks - 1) \div cycles_per_frame

\* C29, as stated: in every reachable player state, after any sequence of
\* new, fill_buffer, toggle_pause, take_error, switch_chip_model,
\* load_song and load_sid_file, failing loads and loads from PAL to NTSC
\* included, 0 <= frame_cycle_count <= cycles_per_frame.
C29_FrameCountWithinFrame ==
    (alive /\ cpu.at = "off" /\ audio.at = "idle")
    => (0 <= frame_cycle_count /\ frame_cycle_count <= cycles_per_frame)

\* init RTS at $1000, play LDA #$0F / STA $D418 / RTS at $1001
VolumeTune == RoutineTune(4096, 4096, 4097, <<96, 169, 15, 141, 24, 212, 96>>)

InPlay == cpu.at # "off" /\ cpu.kind = "play"

\* C30: when a frame boundary is reached inside a sample's cycle run, the
\* play routine is entered with the stack trap reinstalled (0x01FE = 0x01FF
\* = 0xFF, SP = 0xFD, PC = play_address) and the SID state as it was; no
\* SID is clocked while play runs; the clock of that cycle comes after play
\* returned with PC = 0 and sees the registers as play left them, and so do
\* the later clocks of the sample.
C30_PlayBeforeClock ==
    /\ [][(~InPlay /\ InPlay' /\ tune.play_address # 0)
          => /\ audio.at = "cycles"
             /\ audio.left > 0
             /\ frame_cycle_count >= cycles_per_frame
             /\ Rd(ram', 510) = 255
             /\ Rd(ram', 511) = 255
             /\ cpu'.sp = 253
             /\ cpu'.pc = tune.play_address
             /\ sids' = sids
             /\ access'.clocks = access.clocks]_vars
    /\ [][InPlay
          => \/ (access'.clocks = access.clocks /\ audio'.at # "cycles")
             \/ (access'.clocks = access.clocks /\ audio'.left = audio.left)
             \/ /\ cpu.at = "ok"
                /\ cpu.pc = 0
                /\ access'.clocks = access.clocks + 1
                /\ sids' = sids
                /\ audio'.seen = [i \in DOMAIN sids |-> sids[i].regs]]_vars
    /\ []((/\ audio.at = "cycles"
           /\ audio.seen # <<>>
           /\ access.plays >= 1
           /\ cpu.at = "off"
           /\ tune = VolumeTune)
          => Rd(audio.seen[1], 24) = 15)

\* C30 witness: the play routine of VolumeTune has run at a frame boundary
\* inside a sample, the clock after it saw $D418 = $0F, and cycles of the
\* same sample are still to run.
C30_Witness ==
    /\ tune = VolumeTune
    /\ audio.at = "cycles"
    /\ audio.left > 0
    /\ cpu.at = "off"
    /\ access.plays = 1
    /\ frame_cycle_count = 1
    /\ Rd(audio.seen[1], 24) = 15
    /\ Rd(sids[1].regs, 24) = 15

\* ---------------------------------------------------------------------
\* CaptureSpec: the envelope capture counted against the samples the
\* mixer writes.  fill_buffer runs one loop iteration per step, and the
\* ghost `access` counts the samples written since Player::new (a sample
\* counts when line 204 stores it; the zero fill after a later fault of
\* the same buffer does not take it back).  Init holds the state before
\* Player::new and the states of the last four samples before the write
\* position wraps.

\* a one-SID PAL tune and a three-SID tune
CaptureTunes ==
    {parse(f) : f \in {PlayerFile(PSID, 2, 4099, 0, 0, 0, 0),
                       PlayerFile(PSID, 3, 4099, 0, 40, 66, 80)}}

\* the ghost: n samples written since Player::new
Written(n) == [op |-> "written", n |-> n]

CaptureInit ==
    /\ \/ /\ PlayerInit
          /\ ram = EmptyMap
          /\ sids = <<>>
          /\ access = Written(0)
       \/ \E counter \in 0..(ENVELOPE_SAMPLE_DIVISOR - 1) :
             /\ EnvStart(SweepTune, SCOPE_BUFFER_SIZE - 1, SCOPE_BUFFER_SIZE - 1,
                         counter, 0)
             /\ access = Written((SCOPE_BUFFER_SIZE - 1) * ENVELOPE_SAMPLE_DIVISOR
                                 + counter)
    /\ file = <<>>
    /\ parsed = NotRun
    /\ pc = "api"
    /\ popup = "None"
    /\ SideInit

\* fill_buffer is entered with a buffer of n samples (lines 164-170)
CaptureBegin(n, j) ==
    /\ alive
    /\ audio.at = "idle"
    /\ mutex = "free"
    /\ Silenced(paused, playback_error) \/ fills < MaxCallbacks
    /\ mutex' = "audio"
    /\ audio' = [at |-> IF Silenced(paused, playback_error) THEN "done" ELSE "filling",
                 n |-> n, j |-> j, i |-> 0, plays |-> 0, clocks |-> 0,
                 fault |-> FALSE, from |-> FillStart]
    /\ buffer' = 0
    /\ UNCHANGED last
    /\ UNCHANGED <<alive, tune, sample_rate, clock_hz, cycles_per_frame, acc,
                   frame_cycle_count, paused, playback_error, chip_models, faulted,
                   fills, envVars, sids, ram>>
    /\ UNCHANGED <<pc, popup, cpu, playlist, browser>>

\* a call of the control thread between two buffers
CaptureControl ==
    /\ mutex = "free"
    /\ \/ toggle_pause
       \/ take_error
       \/ \E k \in InitSteps : load_song(k)
       \/ \E t \in CaptureTunes, k \in InitSteps : load_sid_file(t, k)

CaptureNext ==
    \/ /\ \E t \in CaptureTunes, rate \in SampleRates, k \in InitSteps :
              New(t, rate, None, k)
       /\ access' = Written(0)
       /\ UNCHANGED <<decVars, appVars>>
    \/ /\ \E n \in 1..MaxBuffer, j \in 0..1 : CaptureBegin(n, j)
       /\ UNCHANGED <<decVars, access>>
    \/ /\ AudioSample
       /\ access' = Written(access.n + (IF audio'.fault THEN 0 ELSE 1))
       /\ UNCHANGED decVars
    \/ /\ AudioUnlock
       /\ UNCHANGED <<decVars, access>>
    \/ /\ CaptureControl
       /\ UNCHANGED <<decVars, access, appVars>>

CaptureSpec == CaptureInit /\ [][CaptureNext]_vars

\* C31: with N samples written since Player::new, in any split into
\* buffers and across pauses, load_song and load_sid_file, the write
\* position is floor(N / 4) mod 1024 and the downsampling counter is
\* N mod 4; a capture happens exactly on every fourth sample and stores one
\* slot, the same index, for each of the 3 voices of every SID
C31_CaptureEveryFourthSample ==
    /\ [](alive =>
            /\ envelope_write_pos
                 = (access.n \div ENVELOPE_SAMPLE_DIVISOR) % SCOPE_BUFFER_SIZE
            /\ envelope_sample_counter = access.n % ENVELOPE_SAMPLE_DIVISOR)
    /\ [][(alive /\ alive') =>
            /\ (envelope_history'.total # envelope_history.total)
                 <=> (access'.n = access.n + 1
                      /\ access'.n % ENVELOPE_SAMPLE_DIVISOR = 0)
            /\ (envelope_history'.total # envelope_history.total) =>
                 /\ envelope_history'.total = envelope_history.total + 1
                 /\ envelope_history.voices = 3 * Len(sids)
                 /\ envelope_write_pos'
                      = (envelope_write_pos + 1) % SCOPE_BUFFER_SIZE]_vars

\* the fourth sample after a load_sid_file completes the capture that wraps
\* the write position
C31_Witness ==
    /\ alive
    /\ access.n = ENVELOPE_SAMPLE_DIVISOR * SCOPE_BUFFER_SIZE
    /\ envelope_write_pos = 0
    /\ envelope_history.held = 1
    /\ paused = FALSE

\* C32: in every player state the number of SID windows, the length of
\* chip_models and a third of the envelope-history voices are equal, lie in
\* 1..3 and are the tune's sid_count, with the first window at 0xD400; right
\* after load_sid_file, returning or failing in init, the telemetry holds
\* 3 * sid_count fresh rings of the new tune
C32_SidCountsAgree ==
    alive =>
        /\ Len(sids) \in 1..3
        /\ Len(sids) = Len(chip_models)
        /\ envelope_history.voices = 3 * Len(sids)
        /\ Len(sids) = sid_count(tune)
        /\ sids[1].base = PRIMARY_SID
        /\ last.op = "load_sid_file" => envelope_history.held = 0

\* a load_sid_file of a three-SID tune failed in init after samples were
\* captured
C32_Witness ==
    /\ alive
    /\ last.op = "load_sid_file"
    /\ last.res = "InitTimeout"
    /\ Len(sids) = 3
    /\ envelope_history.voices = 9
    /\ envelope_history.total > 0

\* ---------------------------------------------------------------------
\* LoadSpec: C64Memory::load on a memory with one to three SID windows,
\* with payloads placed below, across and above the windows and at the
\* last addresses of RAM.

\* 0x0000, 0x01FF, 0xD3FF (reaching into the first window), 0xD418,
\* 0xD41F (reaching into a second window at 0xD420), 0xFFFD .. 0xFFFF
LoadAddrs == {0, 511, 54271, 54296, 54303, 65533, 65534, 65535}

LoadPayloads == {<<>>, <<9>>, <<0, 7>>, <<5, 0, 6>>}

\* a call of C64Memory::load, the last call of a run
MemLoad(address, data) ==
    /\ access.op # "load"
    /\ ram' = load(ram, address, data)
    /\ access' = [op |-> "load", addr |-> address, data |-> data,
                  ram0 |-> ram, sids0 |-> sids]
    /\ UNCHANGED sids

LoadNext ==
    \/ /\ access.op # "load"
       /\ \E c \in WindowConfigs : MemConfigure(c)
       /\ UNCHANGED <<decVars, plyVars, appVars>>
    \/ /\ access.op # "load"
       /\ \E a \in ProbeAddrs, v \in ProbeVals : MemSetByte(a, v)
       /\ UNCHANGED <<decVars, plyVars, appVars>>
    \/ /\ \E a \in LoadAddrs, d \in LoadPayloads : MemLoad(a, d)
       /\ UNCHANGED <<decVars, plyVars, appVars>>

LoadSpec == MemInit /\ [][LoadNext]_vars

\* the addresses a load of `access` is specified to write
LoadRange == access.addr .. (access.addr + Min(Len(access.data), RAM_SIZE - access.addr) - 1)

\* C33: load(address, bytes) stores the first min(len, 65536 - address)
\* bytes at RAM[address..], writes nothing at or after a wrap to 0x0000,
\* leaves every other RAM byte as it was and changes no SID register, also
\* when the payload covers the address range of a SID window
C33_LoadWritesRamOnly ==
    access.op = "load" =>
        /\ \A x \in DOMAIN ram \cup DOMAIN access.ram0 \cup LoadRange :
              /\ x \in 0..(RAM_SIZE - 1)
              /\ Rd(ram, x) = IF x \in LoadRange
                              THEN access.data[x - access.addr + 1]
                              ELSE Rd(access.ram0, x)
        /\ sids = access.sids0

\* a three-byte payload loaded at 0xFFFE over a stored 0xFFFF: two bytes are
\* written, the third is dropped, and the register of the SID keeps its value
C33_Witness ==
    /\ access.op = "load"
    /\ access.addr = 65534
    /\ Len(access.data) = 3
    /\ Rd(access.ram0, 65535) = 255
    /\ Rd(ram, 65534) = 5
    /\ Rd(ram, 65535) = 0
    /\ Rd(sids[1].regs, 0) = 17

\* C34: a play fault records its message; take_error returns a message
\* exactly when one is recorded, clears it and changes nothing else, so the
\* calls after the first return None until fill_buffer faults again and the
\* player stays paused; a recorded message disappears without being returned
\* only in a load_song or load_sid_file whose init returns, and a load that
\* fails in init keeps it
C34_ErrorTakenOnce ==
    [][/\ (last'.op = "fill_buffer" /\ last'.res = "fault")
            => (playback_error = NoError /\ playback_error' = "PlayTimeout")
       /\ last'.op = "take_error" =>
            /\ last'.res = (IF playback_error = NoError THEN "None" ELSE "Some")
            /\ playback_error' = NoError
            /\ UNCHANGED <<alive, tune, sample_rate, clock_hz, cycles_per_frame,
                           acc, frame_cycle_count, paused, chip_models, envVars,
                           buffer, sids, ram>>
       /\ (playback_error = NoError /\ playback_error' # NoError)
            => (last'.op = "fill_buffer" /\ last'.res = "fault")
       /\ (playback_error # NoError /\ playback_error' = NoError)
            => \/ last'.op = "take_error" /\ last'.res = "Some"
               \/ last'.op \in {"load_song", "load_sid_file"} /\ last'.res = "Ok"
       /\ (last'.op \in {"load_song", "load_sid_file"} /\ last'.res # "Ok")
            => playback_error' = playback_error]_vars

\* the message of a fault has been taken and the player is still paused
C34_Witness ==
    /\ alive
    /\ faulted
    /\ last.op = "take_error"
    /\ last.res = "Some"
    /\ playback_error = NoError
    /\ paused

\* ---------------------------------------------------------------------
\* SwitchSpec: switch_chip_model between Player::new (with and without
\* the command line's chip override), register stores of the tune's
\* routines and load_sid_file.  The ghost `access` keeps the windows and
\* chip_models from before the last switch and, when the switch before it
\* was made on the same index, from before that one too; after a load it
\* keeps the chip_models from before the load.

\* 6581 by default; version 3 with the fields 8580, 8580, 6581+8580 and
\* windows at 0xD420 and 0xD500; version 1 whose flags word is not read;
\* version 3 with the fields 6581, 8580 and a window at 0xD420
SwitchTunes ==
    {parse(f) : f \in {PlayerFile(PSID, 2, 4099, 0, 0, 0, 0),
                       PlayerFile(PSID, 3, 4099, 0, 928, 66, 80),
                       PlayerFile(PSID, 1, 4099, 0, 32, 0, 0),
                       PlayerFile(PSID, 3, 4099, 0, 144, 66, 0)}}

\* let idx = sid_index.unwrap_or(0)
SwitchIdx(sid_index) == IF IsSome(sid_index) THEN Unwrap(sid_index) ELSE 0

Switched(sid_index) ==
    LET second == /\ access.op = "switched"
                  /\ access.idx = SwitchIdx(sid_index)
                  /\ ~access.second
    IN [op |-> "switched", idx |-> SwitchIdx(sid_index), second |-> second,
        sids0 |-> sids, models0 |-> chip_models,
        sids00 |-> IF second THEN access.sids0 ELSE <<>>,
        models00 |-> IF second THEN access.models0 ELSE <<>>]

SwitchNext ==
    \/ /\ \E t \in SwitchTunes, rate \in SampleRates, o \in ChipOverrides, k \in InitSteps :
              New(t, rate, o, k)
       /\ access' = NoAccess
       /\ UNCHANGED <<decVars, appVars>>
    \/ /\ \E a \in ChipProbeAddrs, v \in ProbeVals : RoutineWrite(a, v)
       /\ access' = NoAccess
       /\ UNCHANGED <<decVars, appVars>>
    \/ /\ \E i \in SidIndexes : switch_chip_model(i) /\ access' = Switched(i)
       /\ UNCHANGED <<decVars, appVars>>
    \/ /\ \E t \in SwitchTunes, k \in InitSteps : load_sid_file(t, k)
       /\ access' = [op |-> "loaded", models0 |-> chip_models]
       /\ UNCHANGED <<decVars, appVars>>

SwitchSpec == Init /\ [][SwitchNext]_vars

\* C35: switch_chip_model with an index >= sid_count changes no player
\* state and returns the model of the first SID; two successive calls on
\* the same valid index restore the chip model and the registers 0x00..0x18
\* of that window and leave every other window as it was; and in every
\* state chip_models[i] is the model of the chip installed in window i
C35_SwitchTwiceRestores ==
    /\ [](alive =>
            /\ Len(chip_models) = Len(sids)
            /\ \A i \in 1..Len(sids) : chip_models[i] = sids[i].model)
    /\ [](access.op = "switched" =>
            IF access.idx >= Len(access.models0)
            THEN /\ sids = access.sids0
                 /\ chip_models = access.models0
                 /\ last.res = access.sids0[1].model
            ELSE /\ last.res = sids[access.idx + 1].model
                 /\ access.second =>
                      /\ chip_models = access.models00
                      /\ Len(sids) = Len(access.sids00)
                      /\ \A w \in 1..Len(sids) :
                            /\ sids[w].model = access.sids00[w].model
                            /\ sids[w].base = access.sids00[w].base
                            /\ \A r \in 0..(RESTORED_REGISTERS - 1) :
                                  Rd(sids[w].regs, r) = Rd(access.sids00[w].regs, r))
    /\ [][(last'.op = "switch_chip_model" /\ access'.op = "switched"
           /\ access'.idx >= Len(chip_models))
          => UNCHANGED <<alive, tune, sample_rate, clock_hz, cycles_per_frame, acc,
                         frame_cycle_count, paused, playback_error, chip_models,
                         envVars, buffer, sids, ram>>]_vars

\* the third window of a three-SID tune switched to the 6581 and back with
\* its register 0x18 holding a value
C35_Witness ==
    /\ access.op = "switched"
    /\ access.second
    /\ access.idx = 2
    /\ Len(sids) = 3
    /\ sids[3].model # access.sids0[3].model
    /\ Rd(sids[3].regs, 24) # 0

\* the model the header asks for SID i (0-based): bits 4 + 2i and 5 + 2i of
\* the flags word, read from version 2 on
HeaderModel(t, i) ==
    IF t.version >= 2 /\ (t.flags \div (2 ^ (4 + 2 * i))) % 4 = 2
    THEN Mos8580 ELSE Mos6581

\* C36: after load_sid_file the chip model of every SID i is the one the
\* new tune's header gives (8580 iff version >= 2 and the two-bit field at
\* flag bits 4 + 2i is 2, else 6581), whatever chip override Player::new
\* was given and whatever switch_chip_model did before; the override sets
\* the model of all SIDs in Player::new only
C36_LoadTakesHeaderModels ==
    /\ [](last.op = "load_sid_file" =>
            /\ Len(chip_models) = sid_count(tune)
            /\ \A i \in 1..Len(chip_models) :
                  /\ chip_models[i] = HeaderModel(tune, i - 1)
                  /\ sids[i].model = HeaderModel(tune, i - 1))
    /\ [][\A t \in SwitchTunes, rate \in SampleRates, k \in InitSteps :
             (New(t, rate, Some(8580), k) /\ alive')
             => \A i \in 1..sid_count(t) :
                   chip_models'[i] = Mos8580 /\ sids'[i].model = Mos8580]_vars

\* a player whose three SIDs were all 8580, by override or by switching,
\* has loaded the three-SID tune and runs 8580, 8580, 6581
C36_Witness ==
    /\ last.op = "load_sid_file"
    /\ access.op = "loaded"
    /\ access.models0 = <<Mos8580, Mos8580, Mos8580>>
    /\ chip_models = <<Mos8580, Mos8580, Mos6581>>

\* a step that enters load_sid_file or load_song
LoadEntered(op) == cpu.at = "off" /\ cpu'.at = "run" /\ cpu'.kind = op

\* a step in which the init routine of a load times out
LoadTimedOut(op) == cpu.at = "timeout" /\ cpu.kind = op /\ cpu'.at = "off"

\* C37: a load_sid_file whose init times out is not rolled back: the
\* addresses, payload, clock, cycles_per_frame, SID windows, chip models and
\* telemetry it installed before init are those of the new tune and stay,
\* while paused, playback_error, the cycle accumulator and frame_cycle_count
\* keep the values they had before the call; a following load_song reloads
\* the new tune's payload and runs the new tune's init routine
C37_FailedLoadKeepsNewTune ==
    [][/\ \A t \in HarnessReloads :
             (LoadEntered("load_sid_file") /\ cpu'.tune = t) =>
                /\ tune' = t
                /\ clock_hz' = (IF is_pal(t) THEN CLOCK_PAL ELSE CLOCK_NTSC)
                /\ cycles_per_frame'
                     = (IF is_pal(t) THEN PAL_FRAME_CYCLES ELSE NTSC_FRAME_CYCLES)
                /\ Len(sids') = sid_count(t)
                /\ sids'[1].base = PRIMARY_SID
                /\ chip_models' = [i \in 1..sid_count(t) |-> HeaderModel(t, i - 1)]
                /\ \A i \in 1..Len(sids') : sids'[i].model = chip_models'[i]
                /\ envelope_history'.voices = 3 * sid_count(t)
                /\ envelope_history'.held = 0
                /\ \A i \in 1..Len(t.data) :
                      Rd(ram', t.load_address + i - 1) = t.data[i]
                /\ cpu'.pc = t.init_address
                /\ UNCHANGED <<paused, playback_error, acc, frame_cycle_count>>
       /\ (cpu.at # "off" /\ cpu.kind = "load_sid_file" /\ ~LoadTimedOut("load_sid_file")
           /\ cpu'.at # "off")
             => /\ PlayerFieldsUnchanged
                /\ \A i \in 1..Len(sids) :
                      sids'[i].base = sids[i].base /\ sids'[i].model = sids[i].model
       /\ LoadTimedOut("load_sid_file") =>
             /\ last'.res = "InitTimeout"
             /\ tune' = cpu.tune
             /\ UNCHANGED <<alive, tune, clock_hz, cycles_per_frame, chip_models,
                            envVars, sids, ram, paused, playback_error, acc,
                            frame_cycle_count>>
       /\ LoadEntered("load_song") =>
             /\ cpu'.tune = tune
             /\ cpu'.pc = tune.init_address
             /\ \A i \in 1..Len(tune.data) :
                   Rd(ram', tune.load_address + i - 1) = tune.data[i]
             /\ UNCHANGED <<tune, clock_hz, cycles_per_frame, chip_models>>]_vars

\* a playing PAL player has failed to load the NTSC tune whose init spins:
\* it is still playing, mid-frame, with the NTSC tune and frame length
C37_Witness ==
    /\ alive
    /\ cpu.at = "off"
    /\ last.op = "load_sid_file"
    /\ last.res = "InitTimeout"
    /\ tune.init_address = 8192
    /\ cycles_per_frame = NTSC_FRAME_CYCLES
    /\ clock_hz = CLOCK_NTSC
    /\ ~paused
    /\ playback_error = NoError
    /\ frame_cycle_count > 0

\* ---------------------------------------------------------------------
\* GuardSpec: the player mutex as the two threads take and drop it.  The
\* control thread is at pc = <<handler, phase>>: it has called
\* player.lock() ("lock"), holds the guard ("held"), is between handlers
\* ("idle") or has panicked holding the guard ("panicked"); the audio
\* thread is at audio.at in the same way.  The statement that holds the
\* guard is one step; show_error is entered after it, sets the popup and
\* calls player.lock() itself.  GuardFairSpec adds that a thread holding
\* the guard finishes its statement and that a thread waiting in lock()
\* gets the mutex if it is free again and again.

\* callbacks of one sample each that the audio device makes in a run
MaxAudioCalls == 1

GuardIdle == <<"-", "idle">>

\* the handlers of tui/app.rs that lock the player; switch_chip (line 293)
\* locks, calls and returns as toggle_pause does
GuardHandlers ==
    {"update", "toggle_pause", "load_song_on_player", "play_sid_file"}

\* show_error called inside the statement that holds the guard
guard_kept_for_show_error(m, error) ==
    IF m = "control" /\ ~error THEN "free" ELSE m

\* the mutex after the statement holding the guard has ended: the guard is
\* dropped whether or not show_error follows
guard_dropped(m, error) == IF m = "control" THEN "free" ELSE m

GuardInit ==
    /\ EnvStart(SweepTune, 0, 0, 0, 0)
    /\ access = NoAccess
    /\ file = <<>>
    /\ parsed = NotRun
    /\ pc = GuardIdle
    /\ popup = "None"
    /\ mutex = "free"
    /\ audio = [at |-> "idle", calls |-> 0]
    /\ cpu = NoCpu
    /\ playlist = <<>>
    /\ browser = NoBrowser

\* a handler is called and reaches player.lock(); play_sid_file on a file
\* that requires full emulation calls show_error at once (lines 425-428)
GuardEnter(h, supported) ==
    /\ pc = GuardIdle
    /\ IF h = "play_sid_file" /\ ~supported
       THEN pc' = <<"show_error", "lock">> /\ popup' = "Error"
       ELSE pc' = <<h, "lock">> /\ UNCHANGED popup
    /\ UNCHANGED last
    /\ PlayerUnchanged
    /\ UNCHANGED <<mutex, audio, cpu, playlist, browser>>

\* player.lock() returns to the control thread: with the guard, or with Err
\* on a poisoned mutex
GuardAcquire ==
    /\ pc[2] = "lock"
    /\ lock_available(mutex) \/ mutex = "poisoned"
    /\ IF mutex = "poisoned"
       THEN /\ IF pc[1] \in {"load_song_on_player", "play_sid_file"}
               THEN pc' = <<"show_error", "lock">> /\ popup' = "Error"
               ELSE pc' = GuardIdle /\ UNCHANGED popup
            /\ UNCHANGED mutex
       ELSE /\ mutex' = "control"
            /\ pc' = <<pc[1], "held">>
            /\ UNCHANGED popup
    /\ UNCHANGED last
    /\ PlayerUnchanged
    /\ UNCHANGED <<audio, cpu, playlist, browser>>

\* the statement under the guard, and what follows it: show_error when
\* there is a message.  A refused set_sampling_parameters panics with the
\* guard held.
GuardCall(t, k, accepted) ==
    /\ pc[2] = "held"
    /\ IF pc[1] = "play_sid_file" /\ ~accepted
       THEN /\ mutex' = "poisoned"
            /\ pc' = <<pc[1], "panicked">>
            /\ last' = Call(pc[1], "panic", 0, "refused")
            /\ PlayerUnchanged
            /\ UNCHANGED popup
       ELSE LET error == CASE pc[1] = "update" -> playback_error # NoError
                           [] pc[1] \in {"load_song_on_player", "play_sid_file"}
                                -> run_init(k) # "Ok"
                           [] OTHER -> FALSE
            IN /\ CASE pc[1] = "update" -> take_error
                    [] pc[1] = "toggle_pause" -> toggle_pause
                    [] pc[1] = "load_song_on_player" -> load_song(k)
                    [] pc[1] = "play_sid_file" -> load_sid_file(t, k)
                    [] pc[1] = "show_error" ->
                         IF paused
                         THEN last' = Call("show_error", "-", 0, "-") /\ PlayerUnchanged
                         ELSE toggle_pause
               /\ mutex' = guard_dropped(mutex, error)
               /\ pc' = IF error THEN <<"show_error", "lock">> ELSE GuardIdle
               /\ popup' = IF error THEN "Error" ELSE popup
    /\ UNCHANGED <<audio, cpu, playlist, browser>>

\* the audio device calls the callback, which reaches player.lock()
GuardAudioEnter ==
    /\ audio.at = "idle"
    /\ audio.calls < MaxAudioCalls
    /\ audio' = [at |-> "lock", calls |-> audio.calls + 1]
    /\ UNCHANGED last
    /\ PlayerUnchanged
    /\ UNCHANGED <<pc, popup, mutex, cpu, playlist, browser>>

\* player.lock() returns to the callback; on Err the callback returns
GuardAudioAcquire ==
    /\ audio.at = "lock"
    /\ lock_available(mutex) \/ mutex = "poisoned"
    /\ IF mutex = "poisoned"
       THEN audio' = [audio EXCEPT !.at = "idle"] /\ UNCHANGED mutex
       ELSE audio' = [audio EXCEPT !.at = "held"] /\ mutex' = "audio"
    /\ UNCHANGED last
    /\ PlayerUnchanged
    /\ UNCHANGED <<pc, popup, cpu, playlist, browser>>

\* fill_buffer of one sample under the guard, which is dropped when the
\* callback returns
GuardAudioFill(j) ==
    /\ audio.at = "held"
    /\ fill_buffer(1, j)
    /\ mutex' = IF mutex = "audio" THEN "free" ELSE mutex
    /\ audio' = [audio EXCEPT !.at = "idle"]
    /\ UNCHANGED <<pc, popup, cpu, playlist, browser>>

GuardEnterStep ==
    /\ \E h \in GuardHandlers, supported \in BOOLEAN : GuardEnter(h, supported)
    /\ UNCHANGED <<decVars, access>>

GuardAcquireStep == GuardAcquire /\ UNCHANGED <<decVars, access>>

GuardCallStep ==
    /\ \E k \in InitSteps, accepted \in BOOLEAN : GuardCall(SweepTune, k, accepted)
    /\ UNCHANGED <<decVars, access>>

GuardAudioEnterStep == GuardAudioEnter /\ UNCHANGED <<decVars, access>>

GuardAudioAcquireStep == GuardAudioAcquire /\ UNCHANGED <<decVars, access>>

GuardAudioFillStep ==
    /\ \E j \in 0..1 : GuardAudioFill(j)
    /\ UNCHANGED <<decVars, access>>

GuardNext ==
    \/ GuardEnterStep
    \/ GuardAcquireStep
    \/ GuardCallStep
    \/ GuardAudioEnterStep
    \/ GuardAudioAcquireStep
    \/ GuardAudioFillStep

GuardSpec == GuardInit /\ [][GuardNext]_vars

\* a statement holding the guard ends (init and play are cut off after
\* 1,000,000 and 100,000 instructions); a thread blocked in lock() is woken
\* when the mutex is released, and the callback is called once per buffer,
\* so the mutex is free between callbacks
GuardFairSpec ==
    /\ GuardSpec
    /\ WF_vars(GuardCallStep)
    /\ WF_vars(GuardAudioFillStep)
    /\ WF_vars(GuardAcquireStep)
    /\ SF_vars(GuardAudioAcquireStep)

C39_ErrorPopupMeansPaused ==
    /\ []((pc = "idle" /\ popup = "Error") => (alive /\ paused))
    /\ [][(last' # last /\ last'.op \in {"load_song", "load_sid_file", "play_sid_file"})
          => popup = "None"]_vars

\* the popup shows after a failed load of a tune, with the player paused by
\* show_error on the new tune and no playback error recorded
C39_Witness ==
    /\ pc = "idle"
    /\ popup = "Error"
    /\ paused
    /\ playback_error = NoError
    /\ last.op = "toggle_pause"
    /\ fills > 0

\* ---------------------------------------------------------------------
\* HvscSpec: the HvscBrowser (hvsc.rs) over a small collection.  A path
\* is the sequence of its characters.  What the mirror returns for a
\* directory, and whether the two databases can be fetched, is the
\* environment's choice.

RootPath == <<"/">>
MusiciansPath == <<"/", "M", "U", "S", "I", "C", "I", "A", "N", "S", "/">>
GamesPath == <<"/", "G", "A", "M", "E", "S", "/">>
DemosPath == <<"/", "D", "E", "M", "O", "S", "/">>
HubbardPath == MusiciansPath \o <<"H", "/">>
TunePath == HubbardPath \o <<"t", ".", "s", "i", "d">>

HvscEntry(name, path, is_dir) == [name |-> name, path |-> path, is_dir |-> is_dir]

\* the MD5 keys of Songlengths.md5 and the keys asked for
Md5s == {"0f", "0F", "77"}

to_lowercase(md5) == IF md5 = "0F" THEN "0f" ELSE md5

\* a parsed Songlengths.md5: per MD5 the durations of its subsongs, in ms
SonglengthsFetched == [entries |-> [m \in {"0f"} |-> <<61000, 5500>>]]

\* a parsed STIL.txt
StilFetched == [entries |-> [p \in {TunePath} |-> "Commando"]]

\* fetch_directory: the listing of a directory of the collection, or Err
fetch_directory(path) ==
    CASE path = MusiciansPath ->
            [ok |-> TRUE, entries |-> <<HvscEntry("H", HubbardPath, TRUE)>>]
      [] path = HubbardPath ->
            [ok |-> TRUE, entries |-> <<HvscEntry("t.sid", TunePath, FALSE)>>]
      [] path = GamesPath -> [ok |-> TRUE, entries |-> <<>>]
      [] OTHER -> [ok |-> FALSE, err |-> "not found"]

\* HvscBrowser::new
HvscBrowserNew(base_url) ==
    [base_url |-> base_url,
     current_path |-> RootPath,
     entries |-> <<HvscEntry("MUSICIANS", MusiciansPath, TRUE),
                   HvscEntry("GAMES", GamesPath, TRUE),
                   HvscEntry("DEMOS", DemosPath, TRUE)>>,
     selected |-> 0,
     stil |-> None,
     stil_error |-> None,
     songlengths |-> None,
     loading |-> FALSE,
     error |-> None]

\* HvscBrowser::load_stil with the outcome of the two fetches
load_stil(b, stil_ok, songlengths_ok) ==
    [b EXCEPT !.stil = IF stil_ok THEN Some(StilFetched) ELSE @,
              !.stil_error = IF stil_ok THEN @ ELSE Some("fetch failed"),
              !.songlengths = IF songlengths_ok THEN Some(SonglengthsFetched) ELSE @]

\* SonglengthsDatabase::get
songlengths_get(db, md5) ==
    IF to_lowercase(md5) \in DOMAIN db.entries
    THEN Some(db.entries[to_lowercase(md5)]) ELSE None

\* HvscBrowser::song_duration
song_duration(b, md5, subsong) ==
    IF ~IsSome(b.songlengths) THEN None
    ELSE LET durations == songlengths_get(Unwrap(b.songlengths), md5)
             index == Max(subsong - 1, 0)
         IN IF ~IsSome(durations) THEN None
            ELSE IF index + 1 \in DOMAIN Unwrap(durations)
            THEN Some(Unwrap(durations)[index + 1]) ELSE None

\* HvscBrowser::navigate_to
navigate_to(b, path) ==
    IF path = RootPath
    THEN [HvscBrowserNew(b.base_url) EXCEPT !.stil = b.stil,
                                            !.stil_error = b.stil_error]
    ELSE LET r == fetch_directory(path) IN
         IF r.ok
         THEN [b EXCEPT !.loading = FALSE, !.error = None, !.current_path = path,
                        !.entries = r.entries, !.selected = 0]
         ELSE [b EXCEPT !.loading = FALSE, !.error = Some(r.err)]

\* HvscBrowser::enter: the browser after the call and the entry returned
enter(b) ==
    IF b.selected + 1 \notin DOMAIN b.entries THEN [browser |-> b, res |-> None]
    ELSE LET entry == b.entries[b.selected + 1] IN
         IF entry.is_dir
         THEN [browser |-> navigate_to(b, entry.path), res |-> None]
         ELSE [browser |-> b, res |-> Some(entry)]

\* s.trim_end_matches(c)
RECURSIVE trim_end_matches(_, _)
trim_end_matches(s, c) ==
    IF s # <<>> /\ s[Len(s)] = c
    THEN trim_end_matches(SubSeq(s, 1, Len(s) - 1), c) ELSE s

\* HvscBrowser::go_up; rfind counts positions from 1
go_up(b) ==
    IF b.current_path = RootPath THEN b
    ELSE LET path == trim_end_matches(b.current_path, "/")
             pos == rfind(path, "/")
         IN IF pos = 0 THEN b
            ELSE navigate_to(b, IF pos = 1 THEN RootPath
                                ELSE SubSeq(path, 1, pos - 1) \o <<"/">>)

select_next(b) ==
    IF b.entries # <<>>
    THEN [b EXCEPT !.selected = Min(b.selected + 1, Len(b.entries) - 1)] ELSE b

select_prev(b) == [b EXCEPT !.selected = Max(b.selected - 1, 0)]

\* one call on the browser; the first creates it
HvscCall(op, path, stil_ok, songlengths_ok) ==
    /\ (op = "new") <=> (browser = NoBrowser)
    /\ browser' = CASE op = "new" -> HvscBrowserNew("file:///hvsc")
                    [] op = "load_stil" -> load_stil(browser, stil_ok, songlengths_ok)
                    [] op = "enter" -> enter(browser).browser
                    [] op = "go_up" -> go_up(browser)
                    [] op = "navigate_to" -> navigate_to(browser, path)
                    [] op = "select_next" -> select_next(browser)
                    [] op = "select_prev" -> select_prev(browser)
    /\ last' = Call(op, "-", 0, "-")
    /\ PlayerUnchanged
    /\ UNCHANGED <<decVars, access, pc, popup, mutex, audio, cpu, playlist>>

HvscOps ==
    {"new", "load_stil", "enter", "go_up", "navigate_to", "select_next", "select_prev"}

HvscNext ==
    \E op \in HvscOps, path \in {RootPath, MusiciansPath, DemosPath, TunePath},
       stil_ok \in BOOLEAN, songlengths_ok \in BOOLEAN :
          HvscCall(op, path, stil_ok, songlengths_ok)

HvscSpec == Init /\ [][HvscNext]_vars

\* C40, as stated: the databases loaded by the browser survive navigation:
\* enter, go_up and navigate_to, to the root "/" too, leave stil, stil_error
\* and songlengths as they were, and song_duration(md5, subsong) returns
\* what it returned before
C40_DatabasesSurviveNavigation ==
    [][(browser # NoBrowser /\ last'.op \in {"enter", "go_up", "navigate_to"}) =>
          /\ browser'.stil = browser.stil
          /\ browser'.stil_error = browser.stil_error
          /\ browser'.songlengths = browser.songlengths
          /\ \A md5 \in Md5s, subsong \in 0..3 :
                song_duration(browser', md5, subsong)
                  = song_duration(browser, md5, subsong)]_vars

====
